---- MODULE Spec2Model ----
(***************************************************************************)
(* Credential store, OAuth flow and workflows of the DREW backend.         *)
(*                                                                         *)
(* The database tables integrations and integration_status are sets of     *)
(* rows.  Every call of a function of google_integration.py opens its own  *)
(* session (SessionLocal()), so every call is its own transaction: writes  *)
(* made inside a call become visible to other calls at its commit, and     *)
(* every query reads the committed rows (READ COMMITTED).                  *)
(*                                                                         *)
(* In save_integration_to_db the block "with db.begin()" commits at its    *)
(* exit; the db.commit() that follows it finds no transaction to commit.   *)
(*                                                                         *)
(* A process is one request being served (or one direct call of a          *)
(* function of the credential store).  pc is its position in the code.     *)
(* Requests of different processes overlap: the workers of the application *)
(* share one database, and nothing in the code or in the schema keeps two  *)
(* transactions on the same rows apart.                                    *)
(* Requests are served for the users of Users; the tables hold the rows of *)
(* one more user from the start.                                           *)
(*                                                                         *)
(* The workflow handlers of routes.py (book_appointment, initiate_call,    *)
(* send_message) only read the table leads and run to their response in    *)
(* one piece (SpecReq).  The closures they add run after the response in   *)
(* threads of their own, their steps over each other (SpecFlow, which      *)
(* starts from the tasks the handlers add).                                *)
(***************************************************************************)
EXTENDS Integers, Sequences, FiniteSets, TLC

\* ---------------------------------------------------------------- bounds
MaxOps == 2          \* operations started in one behaviour
MaxTime == 1         \* ticks of the clock
TokenTTL == 1        \* lifetime the provider gives an access token
Procs == {1, 2}      \* requests in flight at the same time
Users == {1}            \* the users whose requests are served
TzOffsets == {0, 1}     \* UTC offset of the host's local time zone, in ticks
MaxLen == 3

\* ------------------------------------------------------- program constants
NoneVal == 0                                      \* None / empty string / no row
TOKEN_URI == "https://oauth2.googleapis.com/token"
GOOGLE_CLIENT_ID == "GOOGLE_CLIENT_ID"
GOOGLE_CLIENT_SECRET == "GOOGLE_CLIENT_SECRET"
SCOPES == <<"calendar", "userinfo.email", "gmail.send", "openid">>
GoogleCalendar == "google_calendar"
Emails == {"agent@example.com"}
PlaceholderEmail == "user_<timestamp>"
NoCreds == [none |-> TRUE]                        \* credentials is None
JsonNull == [null |-> TRUE]
NoExpiry == << >>                                 \* credentials.expiry is None

VARIABLES
    integrations,        \* table integrations: rows [id, user_id, platform_name, credentials]
    integration_status,  \* table integration_status: rows [id, user_id, platform_name, status, last_checked]
    now,                 \* datetime.utcnow()
    tz,                  \* UTC offset of the local time zone of the host
    nops,                \* operations started so far
    pc,                  \* position of each process
    op,                  \* the entry point each process is serving
    loc,                 \* local variables of each process
    result,              \* what the entry point returned
    pre,                 \* the two tables as they were at a direct call
    handshakes,          \* refresh handshakes made by the current call
    calendarCalls,       \* calendar API calls made by the current call
    prev,                \* the entry point that completed last
    communications,      \* table drew_lead_communications
    appointments,        \* table appointments
    calls,               \* table calls
    queue,               \* background tasks added and not yet started
    response,            \* the response of a workflow request, until it is sent
    task,                \* the variables captured by the closure each process runs
    steps,               \* the steps of its closure each process has executed
    user_lead_communications,   \* table user_lead_communications
    user_drew_communications,   \* table user_drew_communications
    mail,                \* a call of send_email_notification
    cleaning             \* a text and what clean_generated_email made of it

\* what only save_communication writes
recordVars == <<user_lead_communications, user_drew_communications>>

\* the functions followed on their own
functionVars == <<mail, cleaning>>

otherVars == <<recordVars, functionVars>>

\* the state of the workflows of routes.py
flowVars == <<communications, appointments, calls, queue, response, task, steps,
              otherVars>>

vars == <<integrations, integration_status, now, tz, nops, pc, op, loc,
          result, pre, handshakes, calendarCalls, prev, flowVars>>

db == <<integrations, integration_status>>

\* ------------------------------------------------------------ credentials
\* google.oauth2.credentials.Credentials as built by the flow and by
\* get_user_credentials
Credentials(token, refresh_token, expiry) ==
    [token |-> token, refresh_token |-> refresh_token, token_uri |-> TOKEN_URI,
     client_id |-> GOOGLE_CLIENT_ID, client_secret |-> GOOGLE_CLIENT_SECRET,
     scopes |-> SCOPES, expiry |-> expiry]

\* the tokens the provider issues in the k-th operation: the access token
\* and refresh token of a grant, and the access token of a refresh
AccessToken(k) == 3 * k + 1
RefreshToken(k) == 3 * k + 2
RefreshedToken(k) == 3 * k + 3

\* a token counts as expired one lifetime early
ExpiredEarly(c) == c.expiry # NoExpiry /\ now + TokenTTL >= c.expiry[1]

\* credentials.expired: no expiry means never expired (the margin the
\* library subtracts from the expiry is part of the expiry here)
Expired(c) == c.expiry # NoExpiry /\ now >= c.expiry[1]

\* datetime.isoformat() of a naive datetime: the wall-clock value, no offset
IsoFormat(expiry) == IF expiry # NoExpiry THEN [iso |-> expiry[1]] ELSE JsonNull

\* datetime.fromisoformat(s).astimezone(timezone.utc).replace(tzinfo=None):
\* astimezone takes a naive datetime as local time
ParseExpiry(s, offset) == << s.iso - offset >>

\* credentials_dict of save_integration_to_db
SaveDict(c, email) ==
    [token |-> c.token, refresh_token |-> c.refresh_token, token_uri |-> c.token_uri,
     client_id |-> c.client_id, client_secret |-> c.client_secret,
     scopes |-> c.scopes, expiry |-> IsoFormat(c.expiry), email |-> email]

\* the dictionary refresh_and_save_credentials stores
RefreshDict(c) ==
    [token |-> c.token, refresh_token |-> c.refresh_token, token_uri |-> c.token_uri,
     client_id |-> c.client_id, client_secret |-> c.client_secret,
     scopes |-> c.scopes, expiry |-> IsoFormat(c.expiry)]

\* Credentials(...) of get_user_credentials from the stored dictionary
LoadCredentials(d, offset) ==
    Credentials(d.token, d.refresh_token,
                IF "expiry" \in DOMAIN d /\ d.expiry # JsonNull
                THEN ParseExpiry(d.expiry, offset) ELSE NoExpiry)

\* ---------------------------------------------------------------- tables
\* query(T).filter_by(user_id=..., platform_name=...)
FilterBy(table, user, platform) ==
    {r \in table : r.user_id = user /\ r.platform_name = platform}

NewId(table) == Cardinality(table) + 1

\* the row found is not updated: a row is added by every save
WriteIntegrationAlwaysAdds(table, id, user, dict) ==
    table \cup {[id |-> NewId(table), user_id |-> user,
                 platform_name |-> GoogleCalendar, credentials |-> dict]}

\* session.add(Integration(...)) or integration.credentials = ..., at commit
WriteIntegration(table, id, user, dict) ==
    IF id = NoneVal
    THEN table \cup {[id |-> NewId(table), user_id |-> user,
                      platform_name |-> GoogleCalendar, credentials |-> dict]}
    ELSE {IF r.id = id THEN [r EXCEPT !.credentials = dict] ELSE r : r \in table}

\* a status row is added whether or not the pair has one
WriteStatusAdds(table, id, user, t) ==
    table \cup {[id |-> NewId(table), user_id |-> user,
                 platform_name |-> GoogleCalendar, status |-> "active",
                 last_checked |-> t]}

\* session.add(IntegrationStatus(...)) or status = 'active', last_checked = utcnow()
WriteStatus(table, id, user, t) ==
    IF id = NoneVal
    THEN table \cup {[id |-> NewId(table), user_id |-> user,
                      platform_name |-> GoogleCalendar, status |-> "active",
                      last_checked |-> t]}
    ELSE {IF r.id = id THEN [r EXCEPT !.status = "active", !.last_checked = t] ELSE r
          : r \in table}

\* the writes of a failed transaction stay
RollbackKeepsWrites(table, written) == written

\* db.rollback(): the writes of the transaction are dropped
Rollback(table, written) == table

\* ---------------------------------------------------------------- processes
\* id numbers the operation, t0 is the time of the call, arg the credentials
\* it was called with, fault the step that failed in it and got what
\* refresh_and_save_credentials returned to it ("" before it did)
NoLoc == [id |-> 0, t0 |-> 0, user |-> NoneVal, code |-> FALSE, arg |-> NoCreds,
          creds |-> NoCreds, email |-> "", integ |-> NoneVal, istat |-> NoneVal,
          fault |-> "none", info |-> "", got |-> ""]

NoResult == [status |-> 0, value |-> NoCreds, raised |-> FALSE, dbfail |-> FALSE]

NoPrev == [op |-> "none", user |-> NoneVal, arg |-> NoCreds, email |-> "",
           result |-> NoResult]

\* the rows of another user, stored by a callback served earlier
OtherIntegration ==
    [id |-> 1, user_id |-> 2, platform_name |-> GoogleCalendar,
     credentials |-> SaveDict(Credentials(AccessToken(0), RefreshToken(0), <<TokenTTL>>),
                              "other@example.com")]

OtherStatus ==
    [id |-> 1, user_id |-> 2, platform_name |-> GoogleCalendar, status |-> "active",
     last_checked |-> 0]

\* ------------------------------------------------ the workflows' tables
\* meeting_link is None
NoLink == << >>

\* event.get("hangoutLink") of the event the calendar created for task k
JoinLink(k) == << k >>

\* routes.py 333: "duration": 3600
AppointmentDuration == 3600

\* table leads (models.py 29-42), names letter by letter; no workflow writes it
Leads ==
    {[id |-> 1, user_id |-> 1, name |-> <<"A", "b">>],
     [id |-> 2, user_id |-> 1, name |-> <<"a", "b", "c">>],
     [id |-> 3, user_id |-> 1, name |-> <<"C", "d">>],
     [id |-> 4, user_id |-> 2, name |-> <<"c", "d", "e">>],
     [id |-> 5, user_id |-> 2, name |-> <<"E", "f">>]}

\* the names asked for: of two leads, of one lead (and of one of another
\* user), of one lead, of no lead (and of two of another user)
LeadNames == {<<"a", "b">>, <<"c", "D">>, <<"b", "c">>, <<"e">>}

TimeKinds == {"naive", "aware", "invalid"}      \* start_time / call_time
\* a message_type that is no str: a JSON number, true, false or null
NotText == "<no str>"

MessageTypes == {"sms", "Email", "fax", NotText}    \* message_type

\* the variables a closure captures and sets: id numbers the request, first
\* is first_interaction, sent the first_interaction posted to the webhook,
\* comm and rec the ids of the records it committed, fault the step that
\* failed first
\* a closure that is no booking has no start_time, a booking that made no
\* calendar call has sent no event
NoTime == [none |-> TRUE]

\* timedelta(hours=1) in seconds (routes.py 301)
OneHour == 3600

\* the instants the start_time texts that parse name, in seconds: the text
\* without UTC offset and the text that ends in Z
StartSeconds == [naive |-> 0, aware |-> 1800]

\* a closure that has no session yet
NoSession == [none |-> TRUE]

\* the session a call of SessionLocal() makes for the closure of request k:
\* at add_task in the handler (routes.py 1051, 1262) or as the first
\* statement of the closure (routes.py 313); the session of the handler
\* itself comes from get_db
SessionLocal(at, k) == [from |-> at, request |-> k, closed |-> FALSE]

NoTask == [kind |-> "none", id |-> 0, user |-> NoneVal, lead |-> NoneVal,
           location |-> FALSE, mtype |-> "", creds |-> NoCreds, sender |-> "",
           first |-> "", sent |-> "", link |-> NoLink, comm |-> NoneVal,
           rec |-> NoneVal, fault |-> "none", start |-> NoTime,
           end |-> NoTime, event |-> NoTime, db |-> NoSession]

\* listed holds the ids of the leads in the body, added counts the calls of
\* background_tasks.add_task, fields and time are the request's
NoResponse == [op |-> "none", status |-> 0, user |-> NoneVal, name |-> << >>,
               listed |-> {}, added |-> 0, fields |-> TRUE, time |-> "naive",
               mtype |-> "", body |-> [none |-> TRUE],
               start |-> NoTime, end |-> NoTime]

\* a call of send_email_notification: its arguments, its position, whether
\* the mail API accepted the message, the value returned and whether an
\* exception left the function
NoMail == [at |-> "idle", credentials |-> NoCreds, sender |-> "", recipient |-> "",
           summary |-> FALSE, description |-> FALSE, accepted |-> FALSE,
           value |-> FALSE, raised |-> FALSE]

\* the text given to clean_generated_email, what one call returned for it
\* and what a second call returned for that; or the text the generator
\* returned to a drafting function, that function and what it returned
NoCleaning == [input |-> << >>, once |-> << >>, twice |-> << >>, passes |-> 0,
               by |-> "none", draft |-> << >>]

\* nothing is stored for the users of Users and no request is being served
Idle ==
    /\ communications = {}
    /\ appointments = {}
    /\ calls = {}
    /\ user_lead_communications = {}
    /\ user_drew_communications = {}
    /\ queue = << >>
    /\ response = NoResponse
    /\ task = [p \in Procs |-> NoTask]
    /\ steps = [p \in Procs |-> << >>]
    /\ integrations = {OtherIntegration}
    /\ integration_status = {OtherStatus}
    /\ now = 0
    /\ tz \in TzOffsets
    /\ nops = 0
    /\ pc = [p \in Procs |-> "idle"]
    /\ op = [p \in Procs |-> "none"]
    /\ loc = [p \in Procs |-> NoLoc]
    /\ result = [p \in Procs |-> NoResult]
    /\ pre = [p \in Procs |-> << {}, {} >>]
    /\ handshakes = [p \in Procs |-> 0]
    /\ calendarCalls = [p \in Procs |-> 0]
    /\ prev = NoPrev

Init ==
    /\ Idle
    /\ mail = NoMail
    /\ cleaning = NoCleaning

\* the clock advances
Tick ==
    /\ now < MaxTime
    /\ now' = now + 1
    /\ UNCHANGED <<integrations, integration_status, tz, nops, pc, op, loc,
                   result, pre, handshakes, calendarCalls, prev>>
    /\ UNCHANGED flowVars

\* a process starts serving entry point o with the given arguments and
\* comes to position at; of a direct call of a function of the credential
\* store the time and the tables at the call are kept for the claims
Call(p, o, args, at, direct) ==
    /\ pc[p] = "idle"
    /\ pc' = [pc EXCEPT ![p] = at]
    /\ op' = [op EXCEPT ![p] = o]
    /\ loc' = [loc EXCEPT ![p] = [args EXCEPT !.id = nops + 1, !.t0 = IF direct THEN now ELSE 0]]
    /\ nops < MaxOps
    /\ nops' = nops + 1
    /\ result' = [result EXCEPT ![p] = NoResult]
    /\ pre' = [pre EXCEPT ![p] = IF direct THEN db ELSE << {}, {} >>]
    /\ handshakes' = [handshakes EXCEPT ![p] = 0]
    /\ calendarCalls' = [calendarCalls EXCEPT ![p] = 0]
    /\ UNCHANGED <<integrations, integration_status, now, tz, prev>>
    /\ UNCHANGED flowVars

\* the entry point is left with result r
Finish(p, r) ==
    /\ pc' = [pc EXCEPT ![p] = "done"]
    /\ result' = [result EXCEPT ![p] = r]

\* the response is out and the process is free for the next request
Forget(p) ==
    /\ pc[p] = "done"
    /\ pc' = [pc EXCEPT ![p] = "idle"]
    /\ op' = [op EXCEPT ![p] = "none"]
    /\ loc' = [loc EXCEPT ![p] = NoLoc]
    /\ result' = [result EXCEPT ![p] = NoResult]
    /\ pre' = [pre EXCEPT ![p] = << {}, {} >>]
    /\ handshakes' = [handshakes EXCEPT ![p] = 0]
    /\ calendarCalls' = [calendarCalls EXCEPT ![p] = 0]
    /\ UNCHANGED <<integrations, integration_status, now, tz, nops>>
    /\ UNCHANGED flowVars

Return(p) ==
    /\ Forget(p)
    /\ UNCHANGED prev

\* the same, in a sequence of calls of which the last one is remembered
ReturnSeq(p) ==
    /\ Forget(p)
    /\ prev' = [op |-> op[p], user |-> loc[p].user, arg |-> loc[p].arg,
                email |-> loc[p].email, result |-> result[p]]

\* ------------------------------------------------- save_integration_to_db
\* what the caller of save_integration_to_db makes of its outcome:
\* google_callback answers 200, or 500 when save re-raised
SaveOutcome(p, raised) ==
    IF op[p] = "callback"
    THEN [NoResult EXCEPT !.status = IF raised THEN 500 ELSE 200]
    ELSE [NoResult EXCEPT !.raised = raised]

\* the arguments of a direct call: bundles with and without refresh token,
\* with no expiry, expired, and still valid
InputCreds ==
    {Credentials(AccessToken(nops + 1), rt, e) :
        rt \in {NoneVal, RefreshToken(nops + 1)},
        e \in {NoExpiry, <<now>>, <<now + TokenTTL>>}}

StartSave(p) ==
    \E u \in Users, c \in InputCreds \cup {NoCreds}, e \in Emails :
        /\ Call(p, "save", [NoLoc EXCEPT !.user = u, !.arg = c, !.creds = c, !.email = e],
                "sv_q1", TRUE)

\* lines 45-61: build credentials_dict, begin, query the Integration row
SaveQueryIntegration(p) ==
    /\ pc[p] = "sv_q1"
    /\ \/ /\ loc[p].creds = NoCreds              \* AttributeError on credentials.token
          /\ Finish(p, SaveOutcome(p, TRUE))
          /\ loc' = [loc EXCEPT ![p].fault = "credentials"]
       \/ /\ Finish(p, SaveOutcome(p, TRUE))     \* the query fails
          /\ loc' = [loc EXCEPT ![p].fault = "query_integration"]
       \/ /\ loc[p].creds # NoCreds
          /\ LET found == FilterBy(integrations, loc[p].user, GoogleCalendar) IN
             \/ /\ found = {}
                /\ loc' = [loc EXCEPT ![p].integ = NoneVal]
             \/ \E r \in found : loc' = [loc EXCEPT ![p].integ = r.id]    \* .first()
          /\ pc' = [pc EXCEPT ![p] = "sv_q2"]
          /\ UNCHANGED result
    /\ UNCHANGED <<integrations, integration_status, now, tz, nops, op, pre,
                   handshakes, calendarCalls, prev>>
    /\ UNCHANGED flowVars

\* lines 62-75: add or update the Integration in the session, query the status row
SaveQueryStatus(p) ==
    /\ pc[p] = "sv_q2"
    /\ LET written == WriteIntegration(integrations, loc[p].integ, loc[p].user,
                                       SaveDict(loc[p].creds, loc[p].email)) IN
       \/ /\ integrations' = Rollback(integrations, written)      \* the query fails
          /\ Finish(p, SaveOutcome(p, TRUE))
          /\ loc' = [loc EXCEPT ![p].fault = "query_status"]
       \/ /\ LET found == FilterBy(integration_status, loc[p].user, GoogleCalendar) IN
             \/ /\ found = {}
                /\ loc' = [loc EXCEPT ![p].istat = NoneVal]
             \/ \E r \in found : loc' = [loc EXCEPT ![p].istat = r.id]
          /\ pc' = [pc EXCEPT ![p] = "sv_commit"]
          /\ UNCHANGED <<integrations, result>>
    /\ UNCHANGED <<integration_status, now, tz, nops, op, pre,
                   handshakes, calendarCalls, prev>>
    /\ UNCHANGED flowVars

\* lines 76-92: add or update the status in the session, commit (or roll back and re-raise)
SaveCommit(p) ==
    /\ pc[p] = "sv_commit"
    /\ LET written == WriteIntegration(integrations, loc[p].integ, loc[p].user,
                                       SaveDict(loc[p].creds, loc[p].email))
           swritten == WriteStatus(integration_status, loc[p].istat, loc[p].user, now) IN
       \/ /\ integrations' = written
          /\ integration_status' = swritten
          /\ Finish(p, SaveOutcome(p, FALSE))
          /\ UNCHANGED loc
       \/ /\ integrations' = Rollback(integrations, written)
          /\ integration_status' = Rollback(integration_status, swritten)
          /\ Finish(p, SaveOutcome(p, TRUE))
          /\ loc' = [loc EXCEPT ![p].fault = "commit"]
    /\ UNCHANGED <<now, tz, nops, op, pre, handshakes, calendarCalls, prev>>
    /\ UNCHANGED flowVars

\* ---------------------------------------------------- get_user_credentials
\* what get_user_credentials can return when its query succeeds
GetResults(user, platform) ==
    LET found == FilterBy(integrations, user, platform) IN
    IF found = {} THEN {NoCreds}
    ELSE {LoadCredentials(r.credentials, tz) : r \in found}

StartGet(p) ==
    \E u \in Users :
        /\ Call(p, "get", [NoLoc EXCEPT !.user = u], "get", TRUE)

\* get_available_times, lines 476-479
StartAvail(p) ==
    \E u \in Users :
        /\ Call(p, "avail", [NoLoc EXCEPT !.user = u], "get", FALSE)

\* lines 95-126; the caller get_available_times raises 401 on None, which its
\* own except clause turns into 500 (routes.py 480-484, 544-551)
GetUserCredentials(p) ==
    /\ pc[p] = "get"
    /\ \E failed \in BOOLEAN :
       \E c \in IF failed THEN {NoCreds} ELSE GetResults(loc[p].user, GoogleCalendar) :
          IF op[p] = "avail"
          THEN IF c = NoCreds
               THEN /\ Finish(p, [NoResult EXCEPT !.status = 500, !.dbfail = failed])
                    /\ loc' = [loc EXCEPT ![p].fault = IF failed THEN "query" ELSE "none"]
               ELSE /\ pc' = [pc EXCEPT ![p] = "rf_check"]
                    /\ loc' = [loc EXCEPT ![p].arg = c, ![p].creds = c]
                    /\ UNCHANGED result
          ELSE /\ Finish(p, [NoResult EXCEPT !.value = c, !.dbfail = failed])
               /\ loc' = [loc EXCEPT ![p].fault = IF failed THEN "query" ELSE "none"]
    /\ UNCHANGED <<integrations, integration_status, now, tz, nops, op, pre,
                   handshakes, calendarCalls, prev>>
    /\ UNCHANGED flowVars

\* -------------------------------------------- refresh_and_save_credentials
\* what the caller makes of the value refresh_and_save_credentials returned:
\* get_available_times raises 401 on None, which its own except clause turns
\* into 500 (routes.py 486-491, 544-551), and goes on to the calendar otherwise
\* the credentials object is returned whatever happened
RefreshReturnsCredentials(p, value, c, fault) ==
    IF op[p] = "avail" /\ c # NoCreds
    THEN /\ pc' = [pc EXCEPT ![p] = "av_calendar"]
         /\ loc' = [loc EXCEPT ![p].creds = c, ![p].fault = fault, ![p].got = "credentials"]
         /\ UNCHANGED result
    ELSE /\ Finish(p, IF op[p] = "avail" THEN [NoResult EXCEPT !.status = 500]
                      ELSE [NoResult EXCEPT !.value = c])
         /\ loc' = [loc EXCEPT ![p].creds = c, ![p].fault = fault,
                               ![p].got = IF c = NoCreds THEN "None" ELSE "credentials"]

\* c is the credentials object as the call leaves it, fault the step that failed
RefreshReturn(p, value, c, fault) ==
    IF op[p] = "avail" /\ value # NoCreds
    THEN /\ pc' = [pc EXCEPT ![p] = "av_calendar"]
         /\ loc' = [loc EXCEPT ![p].creds = value, ![p].fault = fault, ![p].got = "credentials"]
         /\ UNCHANGED result
    ELSE /\ Finish(p, IF op[p] = "avail" THEN [NoResult EXCEPT !.status = 500]
                      ELSE [NoResult EXCEPT !.value = value])
         /\ loc' = [loc EXCEPT ![p].creds = c, ![p].fault = fault,
                               ![p].got = IF value = NoCreds THEN "None" ELSE "credentials"]

StartRefresh(p) ==
    \E u \in Users :
    \E c \in InputCreds \cup {NoCreds} \cup GetResults(u, GoogleCalendar) :
        /\ Call(p, "refresh", [NoLoc EXCEPT !.user = u, !.arg = c, !.creds = c], "rf_check", TRUE)

\* the refresh token is not looked at
HasRefreshTokenUnchecked(c) == TRUE

\* line 141: credentials.refresh_token is neither None nor empty
HasRefreshToken(c) == c.refresh_token # NoneVal

\* lines 133-143: nothing to do, or nothing to refresh with
RefreshCheck(p) ==
    /\ pc[p] = "rf_check"
    /\ LET c == loc[p].creds IN
       IF c = NoCreds THEN RefreshReturn(p, NoCreds, c, "none")
       ELSE IF ~Expired(c) THEN RefreshReturn(p, c, c, "none")
       ELSE IF ~HasRefreshToken(c) THEN RefreshReturn(p, NoCreds, c, "none")
       ELSE /\ pc' = [pc EXCEPT ![p] = "rf_handshake"]
            /\ UNCHANGED <<loc, result>>
    /\ UNCHANGED <<integrations, integration_status, now, tz, nops, op, pre,
                   handshakes, calendarCalls, prev>>
    /\ UNCHANGED flowVars

\* the refresh loses the refresh token
RefreshedWithoutRefreshToken(c, token, expiry) ==
    [c EXCEPT !.token = token, !.expiry = expiry, !.refresh_token = NoneVal]

\* credentials.refresh(request): the provider answers with a new access
\* token and expiry; the refresh token of the credentials object is kept
Refreshed(c, token, expiry) == [c EXCEPT !.token = token, !.expiry = expiry]

\* lines 145-151: the handshake with the token endpoint
RefreshHandshake(p) ==
    /\ pc[p] = "rf_handshake"
    /\ handshakes' = [handshakes EXCEPT ![p] = @ + 1]
    /\ \/ /\ loc' = [loc EXCEPT ![p].creds =
                              Refreshed(@, RefreshedToken(loc[p].id), <<now + TokenTTL>>)]
          /\ pc' = [pc EXCEPT ![p] = "rf_query"]
          /\ UNCHANGED result
       \/ RefreshReturn(p, NoCreds, loc[p].creds, "handshake")       \* refresh raised
    /\ UNCHANGED <<integrations, integration_status, now, tz, nops, op, pre,
                   calendarCalls, prev>>
    /\ UNCHANGED flowVars

\* lines 153-157 and 172-175: query the Integration row
RefreshQuery(p) ==
    /\ pc[p] = "rf_query"
    /\ \/ RefreshReturn(p, NoCreds, loc[p].creds, "query")          \* outer except
       \/ LET found == FilterBy(integrations, loc[p].user, GoogleCalendar) IN
          \/ /\ found = {}
             /\ RefreshReturn(p, loc[p].creds, loc[p].creds, "none")
          \/ \E r \in found :
                /\ pc' = [pc EXCEPT ![p] = "rf_commit"]
                /\ loc' = [loc EXCEPT ![p].integ = r.id]
                /\ UNCHANGED result
    /\ UNCHANGED <<integrations, integration_status, now, tz, nops, op, pre,
                   handshakes, calendarCalls, prev>>
    /\ UNCHANGED flowVars

\* lines 158-172: overwrite integration.credentials and commit; a failed
\* commit is rolled back and the credentials are returned all the same
RefreshCommit(p) ==
    /\ pc[p] = "rf_commit"
    /\ LET written == {IF r.id = loc[p].integ
                       THEN [r EXCEPT !.credentials = RefreshDict(loc[p].creds)]
                       ELSE r : r \in integrations} IN
       \/ /\ integrations' = written
          /\ RefreshReturn(p, loc[p].creds, loc[p].creds, "none")
       \/ /\ integrations' = Rollback(integrations, written)
          /\ RefreshReturn(p, loc[p].creds, loc[p].creds, "commit")
    /\ UNCHANGED <<integration_status, now, tz, nops, op, pre,
                   handshakes, calendarCalls, prev>>
    /\ UNCHANGED flowVars

\* get_available_times, lines 493-551: the calendar is read and answered
\* with 200; any failure is answered with 500
AvailCalendar(p) ==
    /\ pc[p] = "av_calendar"
    /\ calendarCalls' = [calendarCalls EXCEPT ![p] = @ + 1]
    /\ \E ok \in BOOLEAN : Finish(p, [NoResult EXCEPT !.status = IF ok THEN 200 ELSE 500])
    /\ UNCHANGED <<integrations, integration_status, now, tz, nops, op, loc,
                   pre, handshakes, prev>>
    /\ UNCHANGED flowVars

\* ------------------------------------------------------- google_callback
\* routes.py 62-68, 71: the state and the code of the redirect
StartCallback(p) ==
    \E u \in Users \cup {NoneVal}, code \in BOOLEAN :
        /\ Call(p, "callback", [NoLoc EXCEPT !.user = u, !.code = code],
                IF u = NoneVal \/ ~code THEN "cb_invalid" ELSE "cb_fetch", FALSE)

\* routes.py 69-73 and 100-102: the HTTPException(400) of a missing user id
\* or code is raised inside the try block, whose except clause answers 500
CallbackInvalid(p) ==
    /\ pc[p] = "cb_invalid"
    /\ Finish(p, [NoResult EXCEPT !.status = 500])
    /\ UNCHANGED <<integrations, integration_status, now, tz, nops, op, loc,
                   pre, handshakes, calendarCalls, prev>>
    /\ UNCHANGED flowVars

\* a callback that saves whatever the exchange gave
RefreshTokenGrantedUnchecked(c) == TRUE

\* routes.py 79: if not credentials.refresh_token
RefreshTokenGranted(c) == c.refresh_token # NoneVal

\* routes.py 75-85: the code is exchanged for tokens; the provider leaves
\* out the refresh token when consent was granted before, and that is
\* answered with 400
CallbackFetchToken(p) ==
    /\ pc[p] = "cb_fetch"
    /\ \/ /\ Finish(p, [NoResult EXCEPT !.status = 500])        \* fetch_token raised
          /\ UNCHANGED loc
       \/ \E rt \in {NoneVal, RefreshToken(loc[p].id)} :
             LET c == Credentials(AccessToken(loc[p].id), rt, <<now + TokenTTL>>) IN
             /\ loc' = [loc EXCEPT ![p].creds = c, ![p].arg = c]
             /\ IF RefreshTokenGranted(c)
                THEN /\ pc' = [pc EXCEPT ![p] = "cb_userinfo"]
                     /\ UNCHANGED result
                ELSE Finish(p, [NoResult EXCEPT !.status = 400])
    /\ UNCHANGED <<integrations, integration_status, now, tz, nops, op, pre,
                   handshakes, calendarCalls, prev>>
    /\ UNCHANGED flowVars

\* a callback that takes the email as the identity endpoint gave it
UserEmailUnchecked(info) == info

\* routes.py 90-95: an empty email raises inside the inner try, whose except
\* clause puts the placeholder in its place
UserEmail(info) == IF info = "" THEN PlaceholderEmail ELSE info

\* routes.py 87-95: the account email is asked of the identity endpoint;
\* info is "" when the request raised or the answer held no email
CallbackUserInfo(p) ==
    /\ pc[p] = "cb_userinfo"
    /\ \E info \in Emails \cup {""} :
          loc' = [loc EXCEPT ![p].info = info, ![p].email = UserEmail(info)]
    /\ pc' = [pc EXCEPT ![p] = "sv_q1"]
    /\ UNCHANGED <<integrations, integration_status, now, tz, nops, op, result,
                   pre, handshakes, calendarCalls, prev>>
    /\ UNCHANGED flowVars

\* ---------------------------------------------------------- specifications
\* the steps of google_integration.py
StoreStep(p) ==
    \/ SaveQueryIntegration(p)
    \/ SaveQueryStatus(p)
    \/ SaveCommit(p)
    \/ GetUserCredentials(p)
    \/ RefreshCheck(p)
    \/ RefreshHandshake(p)
    \/ RefreshQuery(p)
    \/ RefreshCommit(p)

\* the steps of the handlers of routes.py
RouteStep(p) ==
    \/ AvailCalendar(p)
    \/ CallbackInvalid(p)
    \/ CallbackFetchToken(p)
    \/ CallbackUserInfo(p)

\* the requests the application serves, over each other
Next ==
    \/ Tick
    \/ \E p \in Procs : \/ StartCallback(p) \/ StartAvail(p)
                        \/ StoreStep(p) \/ RouteStep(p) \/ Return(p)

Spec == Init /\ [][Next]_vars

\* the functions of the credential store called directly, one call after
\* the other
NextSeq ==
    \/ Tick
    \/ \E p \in {1} : \/ StartSave(p) \/ StartGet(p) \/ StartRefresh(p)
                      \/ StoreStep(p) \/ ReturnSeq(p)

SpecSeq == Init /\ [][NextSeq]_vars

\* ------------------------------------------------- the workflow requests
\* str.lower(), as the ILIKE of the database compares
LowerChar(c) ==
    CASE c = "A" -> "a" [] c = "B" -> "b" [] c = "C" -> "c"
      [] c = "D" -> "d" [] c = "E" -> "e" [] OTHER -> c

Lower(s) == [i \in DOMAIN s |-> LowerChar(s[i])]

\* pat occurs in s
Contains(s, pat) ==
    \E i \in 0..(Len(s) - Len(pat)) : SubSeq(s, i + 1, i + Len(pat)) = pat

\* Lead.name.ilike(f"%{name}%")
ILike(name, pat) == Contains(Lower(name), Lower(pat))

\* routes.py 265-268, 907-910, 1144-1147: the leads of the user whose name
\* holds the name asked for
MatchingLeads(user, name) ==
    {l \in Leads : l.user_id = user /\ ILike(l.name, name)}

\* data['message_type'].upper()
Upper(m) ==
    CASE m = "sms" -> "SMS" [] m = "Email" -> "EMAIL" [] m = "fax" -> "FAX"
      [] m = "call" -> "CALL" [] OTHER -> m

\* the closure of request k as background_tasks.add_task receives it
NewTask(kind, k, user, lead, location, mtype) ==
    [NoTask EXCEPT !.kind = kind, !.id = k, !.user = user, !.lead = lead,
                   !.location = location, !.mtype = mtype,
                   !.db = IF kind = "booking" THEN NoSession
                          ELSE SessionLocal("add_task", k)]

\* add_task is called twice
AddTaskTwice(q, t) == Append(Append(q, t), t)

\* background_tasks.add_task(closure)
AddTask(q, t) == Append(q, t)

\* a handler runs to its response: status and body, and the tasks to run
\* after the response when the handler returned it (the tasks added by a
\* handler that raised are dropped with its BackgroundTasks object)
Answer(o, status, u, n, found, in, tasks) ==
    /\ response = NoResponse
    /\ nops < MaxOps
    /\ nops' = nops + 1
    /\ response' = [op |-> o, status |-> status, user |-> u, name |-> n,
                    listed |-> IF status \in {300, 202}
                               THEN {l.id : l \in found} ELSE {},
                    added |-> Len(tasks), fields |-> in.fields,
                    time |-> in.time, mtype |-> in.mtype, body |-> NoResponse.body,
                    start |-> IF status = 202 /\ tasks # << >> THEN Head(tasks).start
                              ELSE NoTime,
                    end |-> IF status = 202 /\ tasks # << >> THEN Head(tasks).end
                            ELSE NoTime]
    /\ queue' = IF status = 202 THEN queue \o tasks ELSE queue
    /\ UNCHANGED <<integrations, integration_status, now, tz, pc, op, loc, result,
                   pre, handshakes, calendarCalls, prev>>
    /\ UNCHANGED <<communications, appointments, calls, task, steps, otherVars>>

\* routes.py 300: datetime.fromisoformat of the start_time with Z replaced
\* by +00:00: the instant and whether it carries a UTC offset; isoformat
\* (routes.py 356-357, 446-447) writes both again
ParseStart(time) == [seconds |-> StartSeconds[time], aware |-> time = "aware"]

\* the end is the start
EndTimeIsStart(start_time) == start_time

\* routes.py 301: end_time = start_time + timedelta(hours=1)
EndTime(start_time) == [start_time EXCEPT !.seconds = @ + OneHour]

\* the closure background_booking_process with the start_time and the
\* end_time of its handler (routes.py 299-312)
BookingTask(k, user, lead, location, start_time) ==
    [NewTask("booking", k, user, lead, location, "")
        EXCEPT !.start = start_time, !.end = EndTime(start_time)]

\* routes.py 249-475: the HTTPException(400) of a missing field is raised
\* inside the try block and answered 500 by its except Exception clause;
\* a start_time that does not parse raises ValueError, answered 400; the
\* accepted booking is answered with its start and end (routes.py 445-450)
BookAppointment ==
    \E u \in Users, n \in LeadNames, fields \in BOOLEAN,
       time \in TimeKinds, location \in BOOLEAN :
        LET found == MatchingLeads(u, n)
            lead == CHOOSE l \in found : TRUE
            in == [fields |-> fields, time |-> time, mtype |-> ""]
            status == IF ~fields THEN 500
                      ELSE IF found = {} THEN 404
                      ELSE IF Cardinality(found) > 1 THEN 300
                      ELSE IF time = "invalid" THEN 400
                      ELSE 202
        IN  Answer("book", status, u, n, found, in,
                   IF status = 202
                   THEN AddTask(<< >>, BookingTask(nops + 1, u, lead.id, location,
                                                   ParseStart(time)))
                   ELSE << >>)

\* routes.py 876-1100: after add_task the handler compares call_time with
\* datetime.now(); a call_time with UTC offset makes that comparison raise
\* TypeError, answered 500
InitiateCall ==
    \E u \in Users, n \in LeadNames, fields \in BOOLEAN, time \in TimeKinds :
        LET found == MatchingLeads(u, n)
            lead == CHOOSE l \in found : TRUE
            in == [fields |-> fields, time |-> time, mtype |-> ""]
            accepted == fields /\ Cardinality(found) = 1 /\ time # "invalid"
            status == IF ~fields THEN 400
                      ELSE IF found = {} THEN 404
                      ELSE IF Cardinality(found) > 1 THEN 300
                      ELSE IF time = "invalid" THEN 400
                      ELSE IF time = "aware" THEN 500
                      ELSE 202
        IN  Answer("call", status, u, n, found, in,
                   IF accepted
                   THEN AddTask(<< >>, NewTask("calling", nops + 1, u, lead.id, FALSE, ""))
                   ELSE << >>)

\* routes.py 1134: data['message_type'].upper() not in ['SMS', 'EMAIL']
TypeRejected(m) == Upper(m) \notin {"SMS", "EMAIL"}

\* routes.py 1103-1299: a message_type that is no str has no upper(), the
\* AttributeError of line 1134 is answered 500 by the except clause
SendMessage ==
    \E u \in Users, n \in LeadNames, fields \in BOOLEAN, m \in MessageTypes :
        LET found == MatchingLeads(u, n)
            lead == CHOOSE l \in found : TRUE
            in == [fields |-> fields, time |-> "naive", mtype |-> m]
            status == IF ~fields THEN 400
                      ELSE IF m = NotText THEN 500
                      ELSE IF TypeRejected(m) THEN 400
                      ELSE IF found = {} THEN 404
                      ELSE IF Cardinality(found) > 1 THEN 300
                      ELSE 202
        IN  Answer("message", status, u, n, found, in,
                   IF status = 202
                   THEN AddTask(<< >>, NewTask("messaging", nops + 1, u, lead.id, FALSE, Upper(m)))
                   ELSE << >>)

\* ---------------------------------------------- the records of the agent
\* table users (models.py 7-21): the users that exist
UserIds == {l.user_id : l \in Leads}

\* ids that no row of users and no row of leads has
UnknownIds == {9}

\* data['type'] of save_communication
CommTypes == {"call", "Email", NotText}

\* data.get('lead_id') and data.get('drew_id'): None when absent
LeadIds == {NoneVal, 1}
DrewIds == {"", "agent_drew"}

\* the statement of save_communication that raises first, "none" when none
\* does: lines 559, 566, 595, 599 (upper() of a type that is no str), 600,
\* 618 and 621; failing is the database statement that fails when reached
FirstRaise(fields, u, lead, drew, type, call_fields, failing) ==
    IF ~fields THEN "fields"
    ELSE IF u \notin UserIds THEN "user"
    ELSE IF lead = NoneVal /\ drew = "" THEN "ids"
    ELSE IF type = NotText THEN "type"
    ELSE IF Upper(type) = "CALL" /\ ~call_fields THEN "call_fields"
    ELSE IF Upper(type) = "CALL" /\ failing = "flush" THEN "flush"
    ELSE IF failing = "commit" THEN "commit"
    ELSE "none"

\* the statements after db.add(communication) of line 597
AfterAdd == {"type", "call_fields", "flush", "commit", "none"}

\* the statements after db.add(call) of line 617
AfterAddCall == {"flush", "commit", "none"}

\* lines 569-593: the table of the communication object
CommTable(lead, drew) ==
    IF lead # NoneVal /\ drew # "" THEN "drew_lead"
    ELSE IF lead # NoneVal THEN "user_lead"
    ELSE "user_drew"

\* the row db.add(communication) puts into the session
PendingRow(table, u, lead, drew, type) ==
    [id |-> NewId(table), user_id |-> u, lead_id |-> lead, drew_id |-> drew,
     type |-> type, status |-> "COMPLETED", details |-> [notes |-> "saved"]]

\* the rows of table with what the session holds for it at the raise, or
\* at the commit
Session(table, name, raise, u, lead, drew, type) ==
    IF raise \in AfterAdd /\ CommTable(lead, drew) = name
    THEN table \cup {PendingRow(table, u, lead, drew, type)}
    ELSE table

\* the same for the table calls: db.add(call) of lines 610-617
SessionCalls(raise, u) ==
    IF raise \in AfterAddCall
    THEN calls \cup {[id |-> NewId(calls), user_id |-> u, status |-> "COMPLETED",
                      duration |-> 0]}
    ELSE calls

\* what the session holds is committed whatever was raised
EndCommits(table, written, raise) == written

\* db.commit() of line 621 when nothing raised, db.rollback() of line 627
\* when something did
End(table, written, raise) ==
    IF raise = "none" THEN written ELSE Rollback(table, written)

\* a handler that adds no task runs to its response r
Reply(r) ==
    /\ response = NoResponse
    /\ nops < MaxOps
    /\ nops' = nops + 1
    /\ response' = r
    /\ UNCHANGED <<integrations, integration_status, now, tz, pc, op, loc, result,
                   pre, handshakes, calendarCalls, prev>>
    /\ UNCHANGED <<appointments, queue, task, steps, functionVars>>

\* routes.py 554-631: every HTTPException raised inside the try block is
\* answered 500 by its except Exception clause, after db.rollback(); the
\* reads of call.id and communication.id (lines 619, 622) are taken not to
\* fail
SaveCommunication ==
    \E fields \in BOOLEAN, u \in Users \cup UnknownIds, lead \in LeadIds,
       drew \in DrewIds, type \in CommTypes, call_fields \in BOOLEAN,
       failing \in {"none", "flush", "commit"} :
        LET raise == FirstRaise(fields, u, lead, drew, type, call_fields, failing)
            name == CommTable(lead, drew)
            table == CASE name = "drew_lead" -> communications
                       [] name = "user_lead" -> user_lead_communications
                       [] name = "user_drew" -> user_drew_communications
            isCall == raise = "none" /\ Upper(type) = "CALL"
        IN  /\ communications' =
                  End(communications,
                      Session(communications, "drew_lead", raise, u, lead, drew, type), raise)
            /\ user_lead_communications' =
                  End(user_lead_communications,
                      Session(user_lead_communications, "user_lead", raise, u, lead, drew, type),
                      raise)
            /\ user_drew_communications' =
                  End(user_drew_communications,
                      Session(user_drew_communications, "user_drew", raise, u, lead, drew, type),
                      raise)
            /\ calls' = End(calls, IF Upper(type) = "CALL" THEN SessionCalls(raise, u) ELSE calls,
                            raise)
            /\ Reply([NoResponse EXCEPT
                        !.op = "save_communication",
                        !.status = IF raise = "none" THEN 201 ELSE 500,
                        !.user = u, !.fields = fields, !.mtype = type,
                        !.body = [lead_id |-> lead, drew_id |-> drew,
                                  call_fields |-> call_fields, raised |-> raise,
                                  communication_id |-> IF raise = "none" THEN NewId(table)
                                                      ELSE NoneVal,
                                  call_id |-> IF isCall THEN NewId(calls) ELSE NoneVal]])

\* start_date and end_date of get_user_communications
DateFilters == {"none", "naive", "invalid"}

\* routes.py 636-765: a date that does not parse raises ValueError, an
\* unknown user HTTPException(404); both are raised inside the try block and
\* answered 500 by its except Exception clause
GetUserCommunications ==
    \E u \in Users \cup UnknownIds, dates \in DateFilters :
        /\ Reply([NoResponse EXCEPT
                    !.op = "get_user_communications",
                    !.status = IF dates = "invalid" THEN 500
                               ELSE IF u \notin UserIds THEN 500
                               ELSE 200,
                    !.user = u, !.time = dates])
        /\ UNCHANGED <<communications, calls, otherVars>>

\* routes.py 769-821: the HTTPException(404) of an unknown lead is raised
\* inside the try block and answered 500 by its except Exception clause.
\* listed are the ids of the lead's rows of drew_lead_communications
GetLeadInteractions ==
    \E l \in {x.id : x \in Leads} \cup UnknownIds :
        LET known == l \in {x.id : x \in Leads} IN
        /\ Reply([NoResponse EXCEPT
                    !.op = "get_lead_interactions",
                    !.status = IF known THEN 200 ELSE 500,
                    !.listed = IF known
                               THEN {c.id : c \in {x \in communications : x.lead_id = l}}
                               ELSE {},
                    !.body = [lead_id |-> l]])
        /\ UNCHANGED <<communications, calls, otherVars>>

\* routes.py 824-873: the HTTPException(400) of a missing user_id or
\* search_term is raised inside the try block and answered 500 by its except
\* Exception clause; otherwise the matching leads of the user are listed
SearchLeads ==
    \E u \in Users \cup {NoneVal}, term \in LeadNames \cup {<< >>} :
        LET fields == u # NoneVal /\ term # << >>
            found == IF fields THEN MatchingLeads(u, term) ELSE {}
        IN  /\ Reply([NoResponse EXCEPT
                        !.op = "search_leads",
                        !.status = IF fields THEN 200 ELSE 500,
                        !.user = u, !.name = term, !.fields = fields,
                        !.listed = {l.id : l \in found}])
            /\ UNCHANGED <<communications, calls, otherVars>>

\* the response is sent; the tasks of the request run after it
Respond ==
    /\ response # NoResponse
    /\ response' = NoResponse
    /\ UNCHANGED <<integrations, integration_status, now, tz, nops, pc, op, loc,
                   result, pre, handshakes, calendarCalls, prev>>
    /\ UNCHANGED <<communications, appointments, calls, queue, task, steps, otherVars>>

\* the workflow requests, each answered before the next is taken
NextReq ==
    \/ BookAppointment \/ InitiateCall \/ SendMessage
    \/ SaveCommunication \/ GetUserCommunications \/ GetLeadInteractions
    \/ SearchLeads
    \/ Respond

SpecReq == Init /\ [][NextReq]_vars

\* ------------------------------------------------ the background closures
\* the closures run in the thread pool after the response, each in a
\* process of its own, their steps over each other; get_user_credentials
\* and refresh_and_save_credentials are each taken as one step of a closure
UserLeads(u) == {l \in Leads : l.user_id = u}

\* the tasks the three handlers add for request k
AcceptedTasks(k) ==
    UNION {{BookingTask(k, l.user_id, l.id, location, ParseStart("naive")) :
                location \in BOOLEAN}
           \cup {NewTask("calling", k, l.user_id, l.id, FALSE, "")}
           \cup {NewTask("messaging", k, l.user_id, l.id, FALSE, m) : m \in {"SMS", "EMAIL"}}
           : l \in {x \in UNION {UserLeads(u) : u \in Users} :
                        \E n \in LeadNames : MatchingLeads(x.user_id, n) = {x}}}

\* the row a callback of user u, served as operation 1 at time 0, stored
StoredIntegration(u) ==
    [id |-> 2, user_id |-> u, platform_name |-> GoogleCalendar,
     credentials |-> SaveDict(Credentials(AccessToken(1), RefreshToken(1), <<TokenTTL>>),
                              CHOOSE e \in Emails : TRUE)]

\* the requests of the workflows have been answered and their tasks wait;
\* the user has connected the calendar before, or has not
InitFlow ==
    /\ communications = {}
    /\ appointments = {}
    /\ calls = {}
    /\ user_lead_communications = {}
    /\ user_drew_communications = {}
    /\ \E n \in 1..Cardinality(Procs) :
          /\ queue \in [1..n -> UNION {AcceptedTasks(k) : k \in 2..(n + 1)}]
          /\ \A i \in 1..n : queue[i].id = i + 1
          /\ nops = n + 1
    /\ response = NoResponse
    /\ task = [p \in Procs |-> NoTask]
    /\ steps = [p \in Procs |-> << >>]
    /\ \E u \in Users :
          integrations \in {{OtherIntegration}, {OtherIntegration, StoredIntegration(u)}}
    /\ integration_status = {OtherStatus}
    /\ now \in 0..MaxTime
    /\ tz \in TzOffsets
    /\ pc = [p \in Procs |-> "idle"]
    /\ op = [p \in Procs |-> "none"]
    /\ loc = [p \in Procs |-> NoLoc]
    /\ result = [p \in Procs |-> NoResult]
    /\ pre = [p \in Procs |-> << {}, {} >>]
    /\ handshakes = [p \in Procs |-> 0]
    /\ calendarCalls = [p \in Procs |-> 0]
    /\ prev = NoPrev
    /\ mail = NoMail
    /\ cleaning = NoCleaning

\* what no step of a closure changes
callVars == <<integration_status, now, tz, nops, op, loc, result, pre,
              calendarCalls, prev, queue, response, otherVars>>

\* the closures start after their records
FirstStepAfterRecords(kind) ==
    CASE kind = "booking" -> "bk_integration"
      [] kind = "calling" -> "cl_user"
      [] kind = "messaging" -> "ms_user"

\* the first statement of each closure
FirstStep(kind) ==
    CASE kind = "booking" -> "bk_records"
      [] kind = "calling" -> "cl_check"
      [] kind = "messaging" -> "ms_records"

\* routes.py 313: the booking closure opens its session itself; the other
\* two closures receive theirs as argument
Enter(t) ==
    IF t.kind = "booking" THEN [t EXCEPT !.db = SessionLocal("closure", t.id)] ELSE t

\* the thread pool starts the task added first
StartTask(p) ==
    /\ pc[p] = "idle"
    /\ response = NoResponse
    /\ queue # << >>
    /\ task' = [task EXCEPT ![p] = Enter(Head(queue))]
    /\ queue' = Tail(queue)
    /\ op' = [op EXCEPT ![p] = Head(queue).kind]
    /\ pc' = [pc EXCEPT ![p] = FirstStep(Head(queue).kind)]
    /\ steps' = [steps EXCEPT ![p] = << >>]
    /\ handshakes' = [handshakes EXCEPT ![p] = 0]
    /\ UNCHANGED <<integrations, integration_status, now, tz, nops, loc, result,
                   pre, calendarCalls, prev, response>>
    /\ UNCHANGED <<communications, appointments, calls, otherVars>>

\* the closure has returned and its thread is free
TaskReturn(p) ==
    /\ pc[p] = "done"
    /\ op[p] \in {"booking", "calling", "messaging"}
    /\ pc' = [pc EXCEPT ![p] = "idle"]
    /\ op' = [op EXCEPT ![p] = "none"]
    /\ task' = [task EXCEPT ![p] = NoTask]
    /\ steps' = [steps EXCEPT ![p] = << >>]
    /\ handshakes' = [handshakes EXCEPT ![p] = 0]
    /\ UNCHANGED <<integrations, integration_status, now, tz, nops, loc, result,
                   pre, calendarCalls, prev, queue, response>>
    /\ UNCHANGED <<communications, appointments, calls, otherVars>>

\* process p executes step name of its closure
StepWith(p, name, h) ==
    /\ steps' = [steps EXCEPT ![p] = Append(@, name)]
    /\ handshakes' = [handshakes EXCEPT ![p] = @ + h]
    /\ UNCHANGED callVars

\* a step that makes no refresh handshake
Step(p, name) == StepWith(p, name, 0)

\* the finally clauses of routes.py 424-425 and 1047-1048: db.close();
\* background_message_process has no finally clause (routes.py 1257-1259)
Finally(t) ==
    IF t.kind \in {"booking", "calling"} THEN [t EXCEPT !.db.closed = TRUE] ELSE t

\* the step leaves the closure at position at with its variables t
Goto(p, at, t) ==
    /\ pc' = [pc EXCEPT ![p] = at]
    /\ task' = [task EXCEPT ![p] = IF at = "done" THEN Finally(t) ELSE t]

\* the step noted as failed, unless one failed before it
Failed(t, name) == IF t.fault = "none" THEN [t EXCEPT !.fault = name] ELSE t

\* the step that raised is made again
AbortRetries(p, name) == Goto(p, pc[p], task[p])

\* the except clauses of routes.py 421-425, 1044-1048, 1257-1259 take the
\* exception step name raised: rollback of what is not committed, print,
\* and the closure is left
Abort(p, name) == Goto(p, "done", Failed(task[p], name))

\* the new row takes the place of the rows of the table
AddReplaces(table, row) == {row}

\* db.add(row) and the db.commit() that follows it (routes.py 324, 336,
\* 339, 996, 1007, 1009, 1202-1203): the table with one more row
Add(table, row) == table \cup {row}

\* a row of drew_lead_communications
Communication(id, t, type, status, details) ==
    [id |-> id, user_id |-> t.user, lead_id |-> t.lead, drew_id |-> "agent_drew",
     type |-> type, status |-> status, details |-> details]

\* routes.py 306: a location that is None or empty makes it a Google Meet
PlatformAlwaysMeet(location) == "Google Meet"

Platform(location) == IF ~location THEN "Google Meet" ELSE "In-person"

\* routes.py 304-310
MeetingDetails(t) == [platform |-> Platform(t.location), meeting_link |-> NoLink]

\* routes.py 353-364: the start and the end of the event handed to
\* events().insert
EventBody(t) == [start |-> t.start, end |-> t.end]

\* where the statements that store the two records of a closure raise:
\* before the first row is in the session, with the communication in the
\* session or flushed and the second row not, or at the commit of both;
\* db.rollback() of the except clause follows (routes.py 422, 1045)
RaisedAt == {"constructor", "second", "commit"}

\* ---- background_booking_process
\* routes.py 313-339: the communication and the appointment, one commit
BookRecords(p) ==
    /\ pc[p] = "bk_records"
    /\ Step(p, "records")
    /\ \/ /\ communications' =
                Add(communications,
                    Communication(NewId(communications), task[p], "MEETING", "SCHEDULED",
                                  MeetingDetails(task[p])))
          /\ appointments' =
                Add(appointments,
                    [id |-> NewId(appointments), user_id |-> task[p].user,
                     status |-> "scheduled", lead |-> task[p].lead,
                     meeting_details |-> MeetingDetails(task[p]),
                     appointment_time |-> task[p].start,
                     duration |-> AppointmentDuration])
          /\ Goto(p, "bk_integration",
                  [task[p] EXCEPT !.comm = NewId(communications),
                                  !.rec = NewId(appointments)])
       \/ \E raised \in RaisedAt :
             /\ Abort(p, "records")
             /\ communications' =
                   Rollback(communications,
                            IF raised # "constructor"
                            THEN Add(communications,
                                     Communication(NewId(communications), task[p],
                                                   "MEETING", "SCHEDULED",
                                                   MeetingDetails(task[p])))
                            ELSE communications)
             /\ appointments' =
                   Rollback(appointments,
                            IF raised = "commit"
                            THEN Add(appointments,
                                     [id |-> NewId(appointments), user_id |-> task[p].user,
                                      status |-> "scheduled", lead |-> task[p].lead,
                                      meeting_details |-> MeetingDetails(task[p]),
                                      appointment_time |-> task[p].start,
                                      duration |-> AppointmentDuration])
                            ELSE appointments)
    /\ UNCHANGED <<integrations, calls>>

\* the email of the row .first() gives, "" without row or without email
SenderEmails(user) ==
    LET found == FilterBy(integrations, user, GoogleCalendar) IN
    IF found = {} THEN {""}
    ELSE {IF "email" \in DOMAIN r.credentials THEN r.credentials.email ELSE "" :
             r \in found}

\* routes.py 341-348: the Integration row of the user is read; the calendar
\* is only for a Google Meet
BookIntegration(p) ==
    /\ pc[p] = "bk_integration"
    /\ Step(p, "integration")
    /\ \/ \E e \in SenderEmails(task[p].user) :
             Goto(p, IF Platform(task[p].location) = "Google Meet" THEN "tk_get" ELSE "done",
                  [task[p] EXCEPT !.sender = e])
       \/ Abort(p, "integration")
    /\ UNCHANGED <<integrations, communications, appointments, calls>>

\* where a closure goes with the credentials get_user_credentials returned:
\* booking does nothing more without them (routes.py 349-350), messaging
\* sends its mail without them (routes.py 1242-1251)
AfterGet(kind, c) ==
    IF c # NoCreds THEN "tk_refresh"
    ELSE IF kind = "booking" THEN "done" ELSE "ms_mail"

\* get_user_credentials(user_id), which returns None when its query fails
TaskGet(p) ==
    /\ pc[p] = "tk_get"
    /\ Step(p, "get")
    /\ \E failed \in BOOLEAN :
       \E c \in IF failed THEN {NoCreds} ELSE GetResults(task[p].user, GoogleCalendar) :
          Goto(p, AfterGet(op[p], c),
               IF failed THEN Failed([task[p] EXCEPT !.creds = c], "get")
               ELSE [task[p] EXCEPT !.creds = c])
    /\ UNCHANGED <<integrations, communications, appointments, calls>>

\* google_integration.py 129-177 as one step: the value returned, the
\* table as the call leaves it and the calls of credentials.refresh it made
\* (the one of lines 145-151, reached with an expired token and a refresh
\* token), for request k
RefreshOutcomes(user, c, k) ==
    LET same(v) == [value |-> v, table |-> integrations,
                    handshakes |-> IF c # NoCreds /\ Expired(c) /\ HasRefreshToken(c)
                                   THEN 1 ELSE 0]
        c2 == Refreshed(c, RefreshedToken(k), <<now + TokenTTL>>)
        found == FilterBy(integrations, user, GoogleCalendar)
        written(id) == {IF r.id = id THEN [r EXCEPT !.credentials = RefreshDict(c2)]
                        ELSE r : r \in integrations}
    IN  IF c = NoCreds THEN {same(NoCreds)}
        ELSE IF ~Expired(c) THEN {same(c)}
        ELSE IF ~HasRefreshToken(c) THEN {same(NoCreds)}
        ELSE {same(NoCreds), same(c2)}
             \cup {[value |-> c2, table |-> written(r.id), handshakes |-> 1] : r \in found}

\* routes.py 351-352, 1245-1246: the value refresh_and_save_credentials
\* returned is not looked at
AfterRefresh(kind, value) ==
    IF kind = "booking" THEN "bk_calendar" ELSE "ms_integration"

\* credentials = refresh_and_save_credentials(user_id, credentials)
TaskRefresh(p) ==
    /\ pc[p] = "tk_refresh"
    /\ \E o \in RefreshOutcomes(task[p].user, task[p].creds, task[p].id) :
          /\ StepWith(p, "refresh", o.handshakes)
          /\ integrations' = o.table
          /\ Goto(p, AfterRefresh(op[p], o.value),
                  IF o.value = NoCreds
                  THEN Failed([task[p] EXCEPT !.creds = o.value], "refresh")
                  ELSE [task[p] EXCEPT !.creds = o.value])
    /\ UNCHANGED <<communications, appointments, calls>>

\* routes.py 352-371: the event is inserted into the calendar, with the
\* credentials the refresh returned or with None; line 370 puts the join
\* link into the dictionary meeting_details of the closure, after the
\* commit of line 339, and no statement after it writes or commits a row
BookCalendar(p) ==
    /\ pc[p] = "bk_calendar"
    /\ Step(p, "calendar")
    /\ \/ Goto(p, "bk_user", [task[p] EXCEPT !.link = JoinLink(task[p].id),
                                             !.event = EventBody(task[p])])
       \/ Abort(p, "calendar")
    /\ UNCHANGED <<integrations, communications, appointments, calls>>

\* routes.py 374: db_bg.query(User).get(user_id)
BookUser(p) ==
    /\ pc[p] = "bk_user"
    /\ Step(p, "user")
    /\ \/ Goto(p, "bk_draft", task[p])
       \/ Abort(p, "user")
    /\ UNCHANGED <<integrations, communications, appointments, calls>>

\* routes.py 377-387: draft_email_via_ai
BookDraft(p) ==
    /\ pc[p] = "bk_draft"
    /\ Step(p, "draft")
    /\ \/ Goto(p, "bk_mail", task[p])
       \/ Abort(p, "draft")
    /\ UNCHANGED <<integrations, communications, appointments, calls>>

\* routes.py 389-416: send_email_notification, which returns False when it failed
BookMail(p) ==
    /\ pc[p] = "bk_mail"
    /\ Step(p, "mail")
    /\ \E ok \in BOOLEAN :
          Goto(p, "done", IF ok THEN task[p] ELSE Failed(task[p], "mail"))
    /\ UNCHANGED <<integrations, communications, appointments, calls>>

\* ---- background_call_process
\* first_interaction is true whatever is stored
FirstInteractionAlways(table, lead) == "true"

\* routes.py 976-979: no row of the lead is stored
FirstInteraction(table, lead) ==
    IF \A r \in table : r.lead_id # lead THEN "true" ELSE "false"

\* routes.py 975-979
CallCheck(p) ==
    /\ pc[p] = "cl_check"
    /\ Step(p, "check")
    /\ \/ Goto(p, "cl_records",
               [task[p] EXCEPT !.first = FirstInteraction(communications, task[p].lead)])
       \/ Abort(p, "check")
    /\ UNCHANGED <<integrations, communications, appointments, calls>>

\* routes.py 981-1009: the communication and the call, one commit
CallRecords(p) ==
    /\ pc[p] = "cl_records"
    /\ Step(p, "records")
    /\ \/ /\ communications' =
                Add(communications,
                    Communication(NewId(communications), task[p], "CALL", "COMPLETED",
                                  [notes |-> "Call initiated"]))
          /\ calls' =
                Add(calls, [id |-> NewId(calls), user_id |-> task[p].user,
                            status |-> "initiated", duration |-> 0])
          /\ Goto(p, "cl_user",
                  [task[p] EXCEPT !.comm = NewId(communications), !.rec = NewId(calls)])
       \/ \E raised \in RaisedAt :
             /\ Abort(p, "records")
             /\ communications' =
                   Rollback(communications,
                            IF raised # "constructor"
                            THEN Add(communications,
                                     Communication(NewId(communications), task[p],
                                                   "CALL", "COMPLETED",
                                                   [notes |-> "Call initiated"]))
                            ELSE communications)
             /\ calls' =
                   Rollback(calls,
                            IF raised = "commit"
                            THEN Add(calls, [id |-> NewId(calls), user_id |-> task[p].user,
                                             status |-> "initiated", duration |-> 0])
                            ELSE calls)
    /\ UNCHANGED <<integrations, appointments>>

\* routes.py 1011-1015
CallUser(p) ==
    /\ pc[p] = "cl_user"
    /\ Step(p, "user")
    /\ \/ Goto(p, "cl_webhook", task[p])
       \/ Abort(p, "user")
    /\ UNCHANGED <<integrations, communications, appointments, calls>>

\* routes.py 1017-1042: the payload is posted to the dialing webhook
CallWebhook(p) ==
    /\ pc[p] = "cl_webhook"
    /\ Step(p, "webhook")
    /\ \E ok \in BOOLEAN :
          Goto(p, "done",
               IF ok THEN [task[p] EXCEPT !.sent = task[p].first]
               ELSE Failed([task[p] EXCEPT !.sent = task[p].first], "webhook"))
    /\ UNCHANGED <<integrations, communications, appointments, calls>>

\* ---- background_message_process
\* routes.py 1188-1203
MsgRecords(p) ==
    /\ pc[p] = "ms_records"
    /\ Step(p, "records")
    /\ \/ /\ communications' =
                Add(communications,
                    Communication(NewId(communications), task[p], task[p].mtype, "sent",
                                  [message_type |-> task[p].mtype]))
          /\ Goto(p, "ms_user", [task[p] EXCEPT !.comm = NewId(communications)])
       \/ /\ Abort(p, "records")
          /\ UNCHANGED communications
    /\ UNCHANGED <<integrations, appointments, calls>>

\* routes.py 1205-1206
MsgUser(p) ==
    /\ pc[p] = "ms_user"
    /\ Step(p, "user")
    /\ \/ Goto(p, "ms_draft", task[p])
       \/ Abort(p, "user")
    /\ UNCHANGED <<integrations, communications, appointments, calls>>

\* routes.py 1208-1210, 1228-1230: draft_sms_via_ai, draft_email_message_via_ai
MsgDraft(p) ==
    /\ pc[p] = "ms_draft"
    /\ Step(p, "draft")
    /\ \/ Goto(p, IF task[p].mtype = "SMS" THEN "ms_webhook" ELSE "tk_get", task[p])
       \/ Abort(p, "draft")
    /\ UNCHANGED <<integrations, communications, appointments, calls>>

\* routes.py 1212-1226: the message is posted to the SMS webhook
MsgWebhook(p) ==
    /\ pc[p] = "ms_webhook"
    /\ Step(p, "webhook")
    /\ \E ok \in BOOLEAN :
          Goto(p, "done", IF ok THEN task[p] ELSE Failed(task[p], "webhook"))
    /\ UNCHANGED <<integrations, communications, appointments, calls>>

\* routes.py 1246-1249
MsgIntegration(p) ==
    /\ pc[p] = "ms_integration"
    /\ Step(p, "integration")
    /\ \/ \E e \in SenderEmails(task[p].user) :
             Goto(p, "ms_mail", [task[p] EXCEPT !.sender = e])
       \/ Abort(p, "integration")
    /\ UNCHANGED <<integrations, communications, appointments, calls>>

\* routes.py 1251-1253: send_email_notification, with the credentials or None
MsgMail(p) ==
    /\ pc[p] = "ms_mail"
    /\ Step(p, "mail")
    /\ \E ok \in BOOLEAN :
          Goto(p, "done", IF ok THEN task[p] ELSE Failed(task[p], "mail"))
    /\ UNCHANGED <<integrations, communications, appointments, calls>>

\* ------------------------------------------------ send_email_notification
\* google_integration.py 180: the arguments of a call; the closures pass
\* the credentials or None, the email of the integration or of the user,
\* lead.email, and the details of the event or of the message
MailInputs ==
    [credentials : {NoCreds} \cup {Credentials(AccessToken(1), rt, e) :
                                      rt \in {NoneVal, RefreshToken(1)},
                                      e \in {NoExpiry, <<TokenTTL>>}},
     sender : Emails \cup {PlaceholderEmail},
     recipient : {"", "lead@example.com"},
     summary : BOOLEAN,
     description : BOOLEAN]

InitMail ==
    /\ Idle
    /\ cleaning = NoCleaning
    /\ \E in \in MailInputs :
          mail = [NoMail EXCEPT !.at = "compose", !.credentials = in.credentials,
                                !.sender = in.sender, !.recipient = in.recipient,
                                !.summary = in.summary, !.description = in.description]

\* what no statement of send_email_notification changes
mailRest == <<integrations, integration_status, now, tz, nops, pc, op, loc,
              result, pre, handshakes, calendarCalls, prev, communications,
              appointments, calls, queue, response, task, steps, recordVars, cleaning>>

\* the exception leaves the function
ExceptRaises(m) == [m EXCEPT !.at = "returned", !.raised = TRUE]

\* lines 225-227: except Exception, print, return False
Except(m) == [m EXCEPT !.at = "returned", !.value = FALSE]

\* lines 188-215: the headers and the two parts; event_details['summary']
\* raises KeyError when the details have no summary
MailCompose ==
    /\ mail.at = "compose"
    /\ mail' = IF mail.summary THEN [mail EXCEPT !.at = "encode"] ELSE Except(mail)
    /\ UNCHANGED mailRest

\* line 218: message.as_bytes() and the base64 encoding, which may raise
MailEncode ==
    /\ mail.at = "encode"
    /\ \/ mail' = [mail EXCEPT !.at = "build"]
       \/ mail' = Except(mail)
    /\ UNCHANGED mailRest

\* line 219: build("gmail", "v1", credentials=credentials); without
\* credentials it looks for the default credentials of the host and raises
\* when there are none
MailBuild ==
    /\ mail.at = "build"
    /\ \/ mail' = [mail EXCEPT !.at = "send"]
       \/ mail' = Except(mail)
    /\ UNCHANGED mailRest

\* lines 220-224: messages().send(...).execute() returns when the API took
\* the message, and True is returned; it raises otherwise
MailSend ==
    /\ mail.at = "send"
    /\ \/ mail' = [mail EXCEPT !.at = "returned", !.accepted = TRUE, !.value = TRUE]
       \/ mail' = Except(mail)
    /\ UNCHANGED mailRest

NextMail == MailCompose \/ MailEncode \/ MailBuild \/ MailSend

\* one call of send_email_notification, for every argument
SpecMail == InitMail /\ [][NextMail]_vars

\* -------------------------------------------------- clean_generated_email
\* a text is a sequence of pieces: a fence of three backticks, the word
\* html in two spellings, a line break, a blank, and any other text
Fence == "<fence>"
Pieces == {Fence, "html", "Html", "\n", " ", "x"}

\* the texts of at most MaxLen pieces
Texts == UNION {[1..n -> Pieces] : n \in 0..MaxLen}

\* what str.strip() takes away
IsSpace(c) == c \in {"\n", " "}

RECURSIVE LStrip(_)
LStrip(s) == IF s # << >> /\ IsSpace(Head(s)) THEN LStrip(Tail(s)) ELSE s

RECURSIVE RStrip(_)
RStrip(s) ==
    IF s # << >> /\ IsSpace(s[Len(s)]) THEN RStrip(SubSeq(s, 1, Len(s) - 1)) ELSE s

\* str.strip()
Strip(s) == RStrip(LStrip(s))

\* line 119: the text starts with a fence and ends with a fence
Fenced(s) == s # << >> /\ Head(s) = Fence /\ s[Len(s)] = Fence

\* line 120: email_text[3:-3], empty when the text is one fence
Unfence(s) == SubSeq(s, 2, Len(s) - 1)

\* the place of the first line break of s, Len(s) + 1 when it has none
RECURSIVE FirstBreak(_)
FirstBreak(s) ==
    IF s = << >> \/ Head(s) = "\n" THEN 1 ELSE 1 + FirstBreak(Tail(s))

\* lines 123-124: lines[0].strip().lower() of a text that is not empty
FirstLine(s) ==
    LET line == Strip(SubSeq(s, 1, FirstBreak(s) - 1))
    IN  [i \in DOMAIN line |-> IF line[i] = "Html" THEN "html" ELSE line[i]]

\* line 125: "\n".join(lines[1:])
OtherLines(s) == SubSeq(s, FirstBreak(s) + 1, Len(s))

\* lines 116-127
Clean(s) ==
    LET stripped == Strip(s)
        unfenced == IF Fenced(stripped) THEN Strip(Unfence(stripped)) ELSE stripped
    IN  IF unfenced # << >> /\ FirstLine(unfenced) = <<"html">>
        THEN Strip(OtherLines(unfenced))
        ELSE unfenced

InitClean ==
    /\ Idle
    /\ mail = NoMail
    /\ \E s \in Texts : cleaning = [NoCleaning EXCEPT !.input = s]

\* what no call of clean_generated_email changes
cleanRest == <<integrations, integration_status, now, tz, nops, pc, op, loc,
               result, pre, handshakes, calendarCalls, prev, communications,
               appointments, calls, queue, response, task, steps, recordVars, mail>>

\* clean_generated_email(input)
CleanOnce ==
    /\ cleaning.passes = 0
    /\ cleaning.by = "none"
    /\ cleaning' = [cleaning EXCEPT !.once = Clean(cleaning.input), !.passes = 1]
    /\ UNCHANGED cleanRest

\* clean_generated_email of what the first call returned
CleanTwice ==
    /\ cleaning.passes = 1
    /\ cleaning' = [cleaning EXCEPT !.twice = Clean(cleaning.once), !.passes = 2]
    /\ UNCHANGED cleanRest

\* a drafting function returns text for what the generator returned
Drafted(name, text) ==
    /\ cleaning.passes = 0
    /\ cleaning.by = "none"
    /\ cleaning' = [cleaning EXCEPT !.by = name, !.draft = text]
    /\ UNCHANGED cleanRest

\* routes.py 168-169: draft_sms_via_ai returns the stripped content
DraftSms == Drafted("draft_sms_via_ai", Strip(cleaning.input))

\* routes.py 204-206: draft_email_message_via_ai
DraftEmailMessage ==
    Drafted("draft_email_message_via_ai", Clean(Strip(cleaning.input)))

\* routes.py 243-246: the body of what draft_email_via_ai returns
DraftEmail == Drafted("draft_email_via_ai", Clean(Strip(cleaning.input)))

NextClean == CleanOnce \/ CleanTwice \/ DraftSms \/ DraftEmailMessage \/ DraftEmail

\* clean_generated_email applied to a text, and to its own result
SpecClean == InitClean /\ [][NextClean]_vars

\* the steps of the three closures
FlowStep(p) ==
    \/ BookRecords(p) \/ BookIntegration(p) \/ TaskGet(p) \/ TaskRefresh(p)
    \/ BookCalendar(p) \/ BookUser(p) \/ BookDraft(p) \/ BookMail(p)
    \/ CallCheck(p) \/ CallRecords(p) \/ CallUser(p) \/ CallWebhook(p)
    \/ MsgRecords(p) \/ MsgUser(p) \/ MsgDraft(p) \/ MsgWebhook(p)
    \/ MsgIntegration(p) \/ MsgMail(p)

NextFlow == \E p \in Procs : StartTask(p) \/ FlowStep(p) \/ TaskReturn(p)

SpecFlow == InitFlow /\ [][NextFlow]_vars

\* ---- a booking from its request to the end of its closure
\* the user has connected the calendar, no request has been made yet
InitConnected ==
    /\ communications = {}
    /\ appointments = {}
    /\ calls = {}
    /\ user_lead_communications = {}
    /\ user_drew_communications = {}
    /\ queue = << >>
    /\ nops = 0
    /\ response = NoResponse
    /\ task = [p \in Procs |-> NoTask]
    /\ steps = [p \in Procs |-> << >>]
    /\ \E u \in Users : integrations = {OtherIntegration, StoredIntegration(u)}
    /\ integration_status = {OtherStatus}
    /\ now = 0
    /\ tz \in TzOffsets
    /\ pc = [p \in Procs |-> "idle"]
    /\ op = [p \in Procs |-> "none"]
    /\ loc = [p \in Procs |-> NoLoc]
    /\ result = [p \in Procs |-> NoResult]
    /\ pre = [p \in Procs |-> << {}, {} >>]
    /\ handshakes = [p \in Procs |-> 0]
    /\ calendarCalls = [p \in Procs |-> 0]
    /\ prev = NoPrev
    /\ mail = NoMail
    /\ cleaning = NoCleaning

\* the statements of background_booking_process
BookStep(p) ==
    \/ BookRecords(p) \/ BookIntegration(p) \/ TaskGet(p) \/ TaskRefresh(p)
    \/ BookCalendar(p) \/ BookUser(p) \/ BookDraft(p) \/ BookMail(p)

\* bookings are requested and answered, one thread runs their closures
NextBook ==
    \/ BookAppointment
    \/ Respond
    \/ \E p \in {1} : StartTask(p) \/ BookStep(p) \/ TaskReturn(p)

SpecBook == InitConnected /\ [][NextBook]_vars

\* the callback and get_available_times served for a user who has connected
\* the calendar before
SpecConnected == InitConnected /\ [][Next]_vars

\* ------------------------------------------------------------------ claims
\* the rows of table integrations of a user
StoredFor(u) == FilterBy(integrations, u, GoogleCalendar)

\* the stored dictionary d holds the token material of bundle b
HoldsTokens(d, b) ==
    /\ d.token = b.token
    /\ d.refresh_token = b.refresh_token
    /\ d.token_uri = b.token_uri
    /\ d.client_id = b.client_id
    /\ d.client_secret = b.client_secret
    /\ d.scopes = b.scopes
    /\ d.expiry = IF b.expiry = NoExpiry THEN JsonNull ELSE [iso |-> b.expiry[1]]

\* process p has left entry point o
Left(p, o) == pc[p] = "done" /\ op[p] = o

\* C1: after a successful save, in a sequence of calls made one after the
\* other, exactly one bundle is stored for the pair, and it is the bundle
\* (and email) that save was called with.
C1_SaveStoresTheBundle ==
    \A p \in Procs :
        Left(p, "save") /\ loc[p].fault = "none" =>
            /\ Cardinality(StoredFor(loc[p].user)) = 1
            /\ \A r \in StoredFor(loc[p].user) :
                  /\ HoldsTokens(r.credentials, loc[p].arg)
                  /\ "email" \in DOMAIN r.credentials
                  /\ r.credentials.email = loc[p].email

\* a second successful save, with a bundle other than that of the first
C1_Witness ==
    /\ Left(1, "save") /\ loc[1].fault = "none"
    /\ prev.op = "save" /\ ~prev.result.raised
    /\ prev.arg # loc[1].arg

\* C2: at most one Integration row is stored per (user, platform), whatever
\* the interleaving of the callbacks being served.
C2_OneBundlePerPair ==
    \A u \in Users : Cardinality(StoredFor(u)) <= 1

\* C3: a save that fails, at whichever step, leaves both tables as they
\* were when it was called and raises to its caller.
C3_FailedSaveChangesNothing ==
    \A p \in Procs :
        Left(p, "save") /\ loc[p].fault # "none" =>
            /\ db = pre[p]
            /\ result[p].raised

\* a save that failed between its two writes, over a stored bundle
C3_Witness ==
    /\ Left(1, "save") /\ loc[1].fault = "query_status"
    /\ loc[1].integ # NoneVal

\* C4: a stored bundle that holds a refresh token holds one after every
\* step of every callback and refresh the application serves.
C4_RefreshTokenIsKept ==
    [][\A r \in integrations :
          r.credentials.refresh_token # NoneVal =>
              \A r2 \in integrations' :
                  r2.id = r.id => r2.credentials.refresh_token # NoneVal]_vars

\* a bundle written by a refresh, holding its refresh token
C4_Witness ==
    \E r \in integrations :
        /\ r.user_id \in Users
        /\ r.credentials.token = RefreshedToken(2)
        /\ r.credentials.refresh_token = RefreshToken(1)

\* C5: a bundle returned after a successful handshake is the bundle stored
\* at the moment of the return.
C5_ReturnedBundleIsStored ==
    \A p \in Procs :
        Left(p, "refresh") /\ handshakes[p] > 0 /\ result[p].value # NoCreds =>
            \E r \in StoredFor(loc[p].user) : HoldsTokens(r.credentials, result[p].value)

\* C6: a refresh whose handshake fails returns failure and leaves both
\* tables as they were.
C6_FailedHandshakeChangesNothing ==
    \A p \in Procs :
        Left(p, "refresh") /\ loc[p].fault = "handshake" =>
            /\ result[p].value = NoCreds
            /\ db = pre[p]

\* a failed handshake for a user with a stored bundle
C6_Witness ==
    /\ Left(1, "refresh") /\ loc[1].fault = "handshake"
    /\ StoredFor(loc[1].user) # {}

\* C7: a refresh called with a bundle that is not expired returns that
\* bundle as it was passed, makes no handshake and leaves both tables as
\* they were.
C7_NotExpiredIsNoOp ==
    \A p \in Procs :
        /\ Left(p, "refresh")
        /\ loc[p].arg # NoCreds
        /\ (loc[p].arg.expiry = NoExpiry \/ now < loc[p].arg.expiry[1])
        => /\ result[p].value = loc[p].arg
           /\ handshakes[p] = 0
           /\ db = pre[p]

\* a refresh of a bundle with a refresh token and an expiry still ahead
C7_Witness ==
    /\ Left(1, "refresh")
    /\ loc[1].arg # NoCreds
    /\ loc[1].arg.expiry # NoExpiry /\ now < loc[1].arg.expiry[1]
    /\ loc[1].arg.refresh_token # NoneVal
    /\ StoredFor(loc[1].user) # {}

\* C8: a refresh called with an expired bundle without refresh token
\* returns failure, makes no handshake and leaves both tables as they were.
C8_NoRefreshTokenFails ==
    \A p \in Procs :
        /\ Left(p, "refresh")
        /\ loc[p].arg # NoCreds
        /\ loc[p].arg.refresh_token = NoneVal
        /\ loc[p].arg.expiry # NoExpiry /\ loc[p].arg.expiry[1] <= loc[p].t0
        => /\ result[p].value = NoCreds
           /\ handshakes[p] = 0
           /\ db = pre[p]

\* an expired bundle without refresh token, for a user with a stored bundle
C8_Witness ==
    /\ Left(1, "refresh")
    /\ loc[1].arg # NoCreds
    /\ loc[1].arg.refresh_token = NoneVal
    /\ loc[1].arg.expiry # NoExpiry /\ loc[1].arg.expiry[1] <= loc[1].t0
    /\ StoredFor(loc[1].user) # {}

\* C9: every stored credential record has the fields of the persisted
\* shape, the account email included, after saves and refreshes.
C9_StoredShapeIsKept ==
    \A r \in integrations :
        DOMAIN r.credentials = {"token", "refresh_token", "token_uri", "client_id",
                                "client_secret", "scopes", "expiry", "email"}

\* C10: get, when its query is answered, returns absent exactly if no
\* bundle is stored, and right after a successful save(b) it returns the
\* tokens, endpoint, client, scopes and expiry of b.
C10_GetReturnsWhatSaveStored ==
    \A p \in Procs :
        Left(p, "get") /\ ~result[p].dbfail =>
            /\ result[p].value = NoCreds <=> StoredFor(loc[p].user) = {}
            /\ (prev.op = "save" /\ ~prev.result.raised /\ prev.user = loc[p].user
                => result[p].value = prev.arg)

\* C11: a callback whose state holds no user id, or that came without
\* authorization code, is answered 400, exchanges no code for tokens and
\* saves nothing.
C11_InvalidCallbackIsBadRequest ==
    \A p \in Procs :
        Left(p, "callback") /\ (loc[p].user = NoneVal \/ ~loc[p].code) =>
            /\ result[p].status = 400
            /\ loc[p].creds = NoCreds
            /\ \A r \in integrations : r.credentials.token # AccessToken(loc[p].id)

\* C12: a callback whose token exchange gave no refresh token goes straight
\* to the answer 400, and the step that answers leaves both tables as they
\* were.
C12_NoRefreshTokenIsBadRequest ==
    [][\A p \in Procs :
          /\ op'[p] = "callback"
          /\ loc'[p].creds # NoCreds
          /\ loc'[p].creds.refresh_token = NoneVal
          => /\ pc'[p] = "done"
             /\ result'[p].status = 400
             /\ (pc[p] # "done" => db' = db)]_vars

\* a callback answered 400 for want of a refresh token while a bundle of
\* its user is stored
C12_Witness ==
    \E p \in Procs :
        /\ Left(p, "callback") /\ result[p].status = 400
        /\ loc[p].creds # NoCreds /\ loc[p].creds.refresh_token = NoneVal
        /\ StoredFor(loc[p].user) # {}

\* C13: a callback whose email fetch failed goes on to save with the
\* placeholder as email, and when its save commits it is answered 200 and
\* the bundle is stored under the placeholder.
C13_PlaceholderEmailIsSaved ==
    [][\A p \in Procs :
          op[p] = "callback" /\ loc'[p].info = "" =>
              /\ (pc[p] = "cb_userinfo" /\ pc'[p] # pc[p] =>
                     /\ pc'[p] = "sv_q1"
                     /\ loc'[p].email = PlaceholderEmail)
              /\ (pc[p] = "sv_commit" /\ pc'[p] = "done" /\ loc'[p].fault = "none" =>
                     /\ result'[p].status = 200
                     /\ \E r \in FilterBy(integrations', loc[p].user, GoogleCalendar) :
                           /\ HoldsTokens(r.credentials, loc[p].creds)
                           /\ r.credentials.email = PlaceholderEmail)]_vars

\* a callback answered 200 after its email fetch failed
C13_Witness ==
    \E p \in Procs :
        /\ Left(p, "callback") /\ result[p].status = 200
        /\ loc[p].info = "" /\ loc[p].email = PlaceholderEmail
        /\ \E r \in StoredFor(loc[p].user) : r.credentials.email = PlaceholderEmail

\* the leads of user u whose name holds n, whatever the case of the letters
OwnLeadsNamed(u, n) ==
    {l \in Leads : l.user_id = u /\ Contains(Lower(l.name), Lower(n))}

\* the request answered had every required field, a time in ISO format
\* and, for a message, a type of SMS or Email
ValidFields(r) ==
    /\ r.op # "none"
    /\ r.fields
    /\ r.time # "invalid"
    /\ (r.op = "message" => Upper(r.mtype) \in {"SMS", "EMAIL"})

\* C14: a workflow request with valid fields is answered 404 when no lead
\* of the requesting user matches the name, 300 with every match listed
\* when several do, and 202 when exactly one does; no lead of another user
\* is matched or listed.
C14_LookupDecidesTheAnswer ==
    ValidFields(response) =>
        LET own == OwnLeadsNamed(response.user, response.name) IN
        /\ (own = {} => response.status = 404)
        /\ (Cardinality(own) > 1 =>
               response.status = 300 /\ response.listed = {l.id : l \in own})
        /\ (Cardinality(own) = 1 => response.status = 202)
        /\ \A l \in Leads : l.id \in response.listed => l.user_id = response.user

\* C15: the handler step that answers 202 adds exactly one background
\* task, and the one that answers 300, 400 or 404 adds none and writes no
\* record.
C15_OneTaskPerAcceptedRequest ==
    [][response = NoResponse /\ response' # NoResponse =>
          /\ (response'.status = 202 =>
                 /\ response'.added = 1
                 /\ Len(queue') = Len(queue) + 1)
          /\ (response'.status \in {300, 400, 404} =>
                 /\ response'.added = 0
                 /\ queue' = queue
                 /\ <<communications, appointments, calls>>' =
                        <<communications, appointments, calls>>)]_vars

\* a second request accepted, its task behind that of the first
C15_Witness ==
    /\ response.status = 202 /\ response.added = 1
    /\ Len(queue) = 2
    /\ queue[2].id = nops

\* process p runs, or has run, a closure of the workflows
Runs(p) == op[p] \in {"booking", "calling", "messaging"}

\* the records the closure of p committed are stored
RecordsStored(p) ==
    /\ task[p].comm # NoneVal => \E r \in communications : r.id = task[p].comm
    /\ (op[p] = "booking" /\ task[p].rec # NoneVal =>
           \E r \in appointments : r.id = task[p].rec)
    /\ (op[p] = "calling" /\ task[p].rec # NoneVal =>
           \E r \in calls : r.id = task[p].rec)

\* C16: when the closure of a booking without location has completed and
\* its calendar event was created, the appointment it stored holds the
\* join link of the event.
C16_MeetingLinkIsStored ==
    \A p \in Procs :
        Left(p, "booking") /\ ~task[p].location /\ task[p].link # NoLink =>
            \E r \in appointments :
                /\ r.id = task[p].rec
                /\ r.meeting_details.meeting_link = task[p].link

\* C17: the closure of a booking with location makes no credential
\* refresh, calendar, draft or mail call, and the communication and the
\* appointment it stored hold no meeting link.
C17_InPersonMakesNoCall ==
    \A p \in Procs :
        op[p] = "booking" /\ task[p].location =>
            /\ \A i \in DOMAIN steps[p] :
                  steps[p][i] \notin {"refresh", "calendar", "draft", "mail"}
            /\ (pc[p] = "done" /\ task[p].fault = "none" => task[p].comm # NoneVal)
            /\ \A r \in communications :
                  r.id = task[p].comm => r.details.meeting_link = NoLink
            /\ \A r \in appointments :
                  r.id = task[p].rec => r.meeting_details.meeting_link = NoLink

\* a booking with location that completed without failure
C17_Witness ==
    \E p \in Procs :
        /\ Left(p, "booking") /\ task[p].location /\ task[p].fault = "none"
        /\ steps[p] = <<"records", "integration">>
        /\ \E r \in appointments : r.id = task[p].rec

\* C18: in every closure the step that failed is the last step executed,
\* and the records the closure committed before it are stored.
C18_FailedStepEndsTheClosure ==
    \A p \in Procs :
        Runs(p) /\ task[p].fault # "none" =>
            /\ steps[p][Len(steps[p])] = task[p].fault
            /\ RecordsStored(p)

\* the steps of each workflow in their order
Order(kind) ==
    CASE kind = "booking" ->
            <<"records", "integration", "get", "refresh", "calendar", "user",
              "draft", "mail">>
      [] kind = "calling" -> <<"check", "records", "user", "webhook">>
      [] kind = "messaging" ->
            <<"records", "user", "draft", "webhook", "get", "refresh",
              "integration", "mail">>

\* the place of step s in sequence o
Place(o, s) == CHOOSE i \in DOMAIN o : o[i] = s

\* C19: the steps a closure has executed follow the order of its workflow,
\* none twice, and before its first calendar, draft, mail or webhook call
\* its records were committed and are stored.
C19_RecordsBeforeExternalCalls ==
    \A p \in Procs :
        Runs(p) =>
            /\ \A i \in DOMAIN steps[p] : \E j \in DOMAIN Order(op[p]) :
                  Order(op[p])[j] = steps[p][i]
            /\ \A i, j \in DOMAIN steps[p] :
                  i < j => Place(Order(op[p]), steps[p][i]) < Place(Order(op[p]), steps[p][j])
            /\ \A i \in DOMAIN steps[p] :
                  steps[p][i] \in {"calendar", "draft", "mail", "webhook"} =>
                      /\ \E j \in 1..(i - 1) : steps[p][j] = "records"
                      /\ task[p].comm # NoneVal
                      /\ (op[p] # "messaging" => task[p].rec # NoneVal)
                      /\ RecordsStored(p)

\* a booking that went through all its steps
C19_Witness ==
    \E p \in Procs :
        /\ Left(p, "booking")
        /\ steps[p] = Order("booking")
        /\ RecordsStored(p)

\* C20: the calling closure makes its check before it has added a record,
\* first_interaction is true exactly if no communication of the lead is
\* stored at the check, and that value is the one posted to the webhook.
C20_FirstInteractionIsChecked ==
    [][\A p \in Procs :
          op[p] = "calling" =>
              /\ (pc[p] = "cl_check" /\ pc'[p] = "cl_records" =>
                     /\ task[p].comm = NoneVal
                     /\ \A i \in DOMAIN steps[p] : steps[p][i] # "records"
                     /\ (task'[p].first = "true" <=>
                            \A r \in communications : r.lead_id # task[p].lead)
                     /\ task'[p].first \in {"true", "false"})
              /\ (pc[p] \in {"cl_records", "cl_user"} => task'[p].first = task[p].first)
              /\ (pc[p] = "cl_webhook" /\ pc'[p] = "done" =>
                     task'[p].sent = task[p].first)]_vars

\* a call to a lead with a stored communication, false posted to the webhook
C20_Witness ==
    \E p \in Procs :
        /\ Left(p, "calling") /\ task[p].sent = "false"
        /\ \E r \in communications : r.lead_id = task[p].lead /\ r.id # task[p].comm

\* the message_type of the request, upper-cased, is SMS or EMAIL
SmsOrEmail(m) == m \in {"sms", "Email"}

\* C21: send_message accepts a message_type only if its upper-cased value
\* is SMS or EMAIL; a request with any other message_type is answered 400,
\* adds no background task and writes no record, whatever the lead lookup
\* would find.
C21_OtherMessageTypeIsBadRequest ==
    [][response = NoResponse /\ response' # NoResponse
       /\ response'.op = "message" /\ response'.fields =>
          /\ (response'.status = 202 => SmsOrEmail(response'.mtype))
          /\ (~SmsOrEmail(response'.mtype) =>
                 /\ response'.status = 400
                 /\ response'.added = 0
                 /\ queue' = queue
                 /\ communications' = communications
                 /\ calls' = calls)]_vars

\* C22: a request for the available times of a user without stored
\* credentials, and one whose refresh_and_save_credentials returned None, is
\* answered 401 and has made no call of the calendar API.
C22_NoCredentialsIsUnauthorized ==
    \A p \in Procs :
        Left(p, "avail") /\ (loc[p].arg = NoCreds \/ loc[p].got = "None") =>
            /\ result[p].status = 401
            /\ calendarCalls[p] = 0

\* C23: a request of book appointment, save communication, search leads,
\* initiate call or send message that lacks a required field is answered
\* 400.
C23_MissingFieldIsBadRequest ==
    /\ response.op \in {"book", "save_communication", "search_leads", "call", "message"}
    /\ ~response.fields
    => response.status = 400

\* C24: get_user_communications for a user that does not exist,
\* get_lead_interactions for a lead that does not exist and
\* save_communication with all required fields for a user that does not
\* exist are answered 404.
C24_UnknownEntityIsNotFound ==
    LET r == response IN
    \/ r.op = "get_user_communications" /\ r.time # "invalid"
          /\ ~\E l \in Leads : l.user_id = r.user
    \/ r.op = "get_lead_interactions" /\ ~\E l \in Leads : l.id = r.body.lead_id
    \/ r.op = "save_communication" /\ r.fields /\ ~\E l \in Leads : l.user_id = r.user
    => r.status = 404

\* the rows of the three communication tables, and of calls
CommunicationRows ==
    Cardinality(communications) + Cardinality(user_lead_communications)
        + Cardinality(user_drew_communications)

C26_SendEmailNeverRaises ==
    /\ ~mail.raised
    /\ (mail.at = "returned" => (mail.value <=> mail.accepted))

\* called without credentials, it has returned False
C26_Witness ==
    /\ mail.at = "returned"
    /\ mail.credentials = NoCreds
    /\ mail.summary
    /\ ~mail.value
    /\ ~mail.accepted

\* the times step s was made by the closure of process p
Times(p, s) == Cardinality({i \in DOMAIN steps[p] : steps[p][i] = s})

\* C27: a closure makes its calendar insert, its AI draft, its mail send
\* and its webhook POST at most once each, and the call of
\* refresh_and_save_credentials it makes at most one refresh handshake.
C27_NothingIsRetried ==
    \A p \in Procs :
        Runs(p) =>
            /\ \A s \in {"calendar", "draft", "mail", "webhook"} : Times(p, s) <= 1
            /\ Times(p, "refresh") <= 1
            /\ handshakes[p] <= 1

\* a booking that refreshed its token and made every external call
C27_Witness ==
    \E p \in Procs :
        /\ Left(p, "booking")
        /\ handshakes[p] = 1
        /\ \A s \in {"calendar", "draft", "mail"} : Times(p, s) = 1

\* the text holds no fence and its first piece that is no blank and no line
\* break is not the word html
Plain(s) ==
    /\ \A i \in DOMAIN s : s[i] # "<fence>"
    /\ \A i \in DOMAIN s :
          s[i] \in {"html", "Html"} => \E j \in 1..(i - 1) : s[j] \notin {" ", "\n"}

\* C28: cleaning the cleaned text returns it unchanged, whatever the text
\* was, and cleaning a text with no fence and no leading html line returns
\* the text itself.
C28_CleaningIsIdempotent ==
    /\ (cleaning.passes = 2 => cleaning.twice = cleaning.once)
    /\ (cleaning.passes >= 1 /\ Plain(cleaning.input) => cleaning.once = cleaning.input)

\* the rows of table integration_status of a user
StatusFor(u) == FilterBy(integration_status, u, GoogleCalendar)

\* C29: a successful save leaves the status of the pair active with a
\* last_checked of the time of the call or later, and a call of refresh that
\* made a handshake, successful or failed, leaves no status of the pair
\* with a last_checked from before the call.
C29_StatusFollowsEveryOperation ==
    \A p \in Procs :
        /\ Left(p, "save") /\ loc[p].fault = "none" =>
              \E r \in StatusFor(loc[p].user) :
                  r.status = "active" /\ r.last_checked >= loc[p].t0
        /\ Left(p, "refresh") /\ handshakes[p] > 0 =>
              \A r \in StatusFor(loc[p].user) : r.last_checked >= loc[p].t0

\* C30: after a successful save, in a sequence of calls made one after the
\* other, exactly one status row is stored for the pair and its status is
\* active.
C30_OneActiveStatusAfterSave ==
    \A p \in Procs :
        Left(p, "save") /\ loc[p].fault = "none" =>
            /\ Cardinality(StatusFor(loc[p].user)) = 1
            /\ \A r \in StatusFor(loc[p].user) : r.status = "active"

\* a successful save over the status row of an earlier save
C30_Witness ==
    /\ Left(1, "save") /\ loc[1].fault = "none"
    /\ loc[1].istat # NoneVal
    /\ prev.op = "save"

\* C31: an accepted booking is answered with an end one hour after its
\* start and queues a closure with the same start and end; the event a
\* booking closure has handed to the calendar starts at the closure's start
\* and ends one hour later; every stored appointment has duration 3600
C31_EndIsStartPlusOneHour ==
    /\ response.op = "book" /\ response.status = 202 =>
          /\ response.end.seconds = response.start.seconds + 3600
          /\ response.end.aware = response.start.aware
          /\ queue # << >>
          /\ queue[Len(queue)].start = response.start
          /\ queue[Len(queue)].end = response.end
    /\ \A p \in Procs :
          task[p].kind = "booking" /\ task[p].event # NoTime =>
             /\ task[p].event.start = task[p].start
             /\ task[p].event.end.seconds = task[p].start.seconds + 3600
             /\ task[p].event.end.aware = task[p].start.aware
    /\ \A a \in appointments : a.duration = 3600

\* a closure has stored the appointment of a booking that starts at 1800
\* with UTC offset and has handed its event to the calendar
C31_Witness ==
    \E p \in Procs :
       /\ task[p].kind = "booking"
       /\ task[p].event # NoTime
       /\ task[p].start = [seconds |-> 1800, aware |-> TRUE]
       /\ \E a \in appointments : a.id = task[p].rec /\ a.appointment_time = task[p].start

\* C32: a booking or messaging closure that holds no credentials after
\* get_user_credentials or after refresh_and_save_credentials (none stored,
\* or the refresh failed) has made no calendar step and no mail step.
C32_NoCallWithoutCredentials ==
    \A p \in Procs :
        /\ op[p] \in {"booking", "messaging"}
        /\ Times(p, "get") > 0
        /\ pc[p] # "tk_refresh"
        /\ task[p].creds = NoCreds
        => Times(p, "calendar") = 0 /\ Times(p, "mail") = 0

\* C33: the session of a running closure was made by a call of
\* SessionLocal() for that closure, not by get_db for the request, no two
\* running closures have the same session, and a closure that has been
\* left, after its last step or after an exception, has closed its session.
C33_OwnSessionClosedAtTheEnd ==
    \A p \in Procs :
        Runs(p) =>
            /\ task[p].db # NoSession
            /\ task[p].db.from \in {"closure", "add_task"}
            /\ task[p].db.request = task[p].id
            /\ \A q \in Procs \ {p} : Runs(q) => task[q].db.request # task[p].db.request
            /\ pc[p] = "done" => task[p].db.closed

\* C34: what a drafting function returned is the cleaning of the text the
\* generator returned to it.
C34_DraftsAreCleaned ==
    cleaning.by # "none" => cleaning.draft = Clean(cleaning.input)

\* C35: no step of a closure changes or removes a stored communication,
\* removes or changes a stored appointment, or removes the row that holds
\* the credential bundle of a user.
C35_WorkflowsOnlyInsert ==
    [][/\ communications \subseteq communications'
       /\ appointments \subseteq appointments'
       /\ \A r \in integrations : \E r2 \in integrations' :
             /\ r2.id = r.id /\ r2.user_id = r.user_id
             /\ r2.platform_name = r.platform_name
             /\ r2.credentials # JsonNull]_vars

\* two closures have stored their communications, the first of them has
\* gone on to a later step, and the bundle of the user was refreshed
C35_Witness ==
    /\ Cardinality(communications) = 2
    /\ \E p \in Procs :
          /\ Runs(p) /\ task[p].comm = 1 /\ Len(steps[p]) > 1
          /\ \E c \in communications : c.id = 1
    /\ \E r \in integrations : r \notin {OtherIntegration} \cup {StoredIntegration(u) : u \in Users}

\* C36: of the calling closures that run at the same time for one lead, at
\* most one has posted first_interaction true to the dialing webhook.
C36_OneFirstInteraction ==
    \A p \in Procs : \A q \in Procs \ {p} :
        /\ op[p] = "calling" /\ op[q] = "calling"
        /\ task[p].lead = task[q].lead
        => ~(task[p].sent = "true" /\ task[q].sent = "true")

\* C37: the commit of refresh_and_save_credentials leaves the refresh token
\* of every stored bundle as it was: the one of the most recent save, also
\* when that save came between the read of the bundle and the refresh.
C37_RefreshKeepsTheSavedRefreshToken ==
    [][\A p \in Procs :
          op[p] = "avail" /\ pc[p] = "rf_commit" /\ pc'[p] # pc[p] =>
             \A r \in integrations : \E r2 \in integrations' :
                /\ r2.id = r.id
                /\ r2.credentials.refresh_token = r.credentials.refresh_token]_vars

\* C38: when a messaging closure has been left and the communication it
\* stored has status sent, the closure has made its webhook step or its
\* mail step.
C38_SentMeansDispatched ==
    \A p \in Procs :
        Left(p, "messaging") =>
            \A c \in communications :
                c.id = task[p].comm /\ c.status = "sent" =>
                    Times(p, "webhook") > 0 \/ Times(p, "mail") > 0

\* C39: as many appointments as MEETING communications and as many calls
\* as CALL communications are stored, and a closure that has made its
\* records step has stored both of its records or none of them.
C39_PairedRecords ==
    /\ Cardinality({c \in communications : c.type = "MEETING"}) = Cardinality(appointments)
    /\ Cardinality({c \in communications : c.type = "CALL"}) = Cardinality(calls)
    /\ \A p \in Procs :
          op[p] \in {"booking", "calling"} =>
             LET second == IF op[p] = "booking" THEN appointments ELSE calls
             IN  /\ task[p].comm = NoneVal <=> task[p].rec = NoneVal
                 /\ task[p].comm # NoneVal =>
                       /\ \E c \in communications : c.id = task[p].comm
                       /\ \E r \in second : r.id = task[p].rec

\* a booking has stored its pair, and a call whose records step raised has
\* stored nothing
C39_Witness ==
    \E p \in Procs : \E q \in Procs \ {p} :
        /\ op[p] = "booking" /\ task[p].comm # NoneVal
        /\ Cardinality(appointments) = 1
        /\ Left(q, "calling") /\ task[q].fault = "records"
        /\ calls = {}

====
